---- MODULE Spec2Model ----
(***************************************************************************)
(* Resource synthesis of PREvant's Kubernetes backend                      *)
(* (api/src/infrastructure/kubernetes/payloads.rs) and the backend         *)
(* abstraction (api/src/infrastructure/infrastructure.rs).                 *)
(*                                                                         *)
(* Text is modelled as a sequence of one-character strings, so that the    *)
(* format!-built names are compared character by character.  A Rust        *)
(* Option is a sequence of length 0 (None) or 1 (Some), a BTreeMap is a    *)
(* function from its keys, a Vec is a sequence.                            *)
(***************************************************************************)
EXTENDS Integers, Sequences, FiniteSets, TLC

\* ------------------------------------------------------------------ bounds
\* Largest number of declared files of one descriptor.
MaxFiles == 2
\* Largest number of running services of one application.
MaxServices == 3
\* Largest reading of the wall clock (Utc::now()); readings are 1..MaxClock,
\* and the clock of the backend advances by one with every deploy.
MaxClock == 3

\* ------------------------------------------------------------------ Option
None == <<>>
Some(x) == <<x>>
IsSome(o) == Len(o) = 1
Unwrap(o) == o[1]

\* ------------------------------------------------------------------ text
UpperCase == <<"A","B","C","D","E","F","G","H","I","J","K","L","M",
               "N","O","P","Q","R","S","T","U","V","W","X","Y","Z">>
LowerCase == <<"a","b","c","d","e","f","g","h","i","j","k","l","m",
               "n","o","p","q","r","s","t","u","v","w","x","y","z">>

IsUpperChar(c) == \E i \in 1..Len(UpperCase) : UpperCase[i] = c

ToLowerChar(c) ==
    IF IsUpperChar(c)
    THEN LowerCase[CHOOSE i \in 1..Len(UpperCase) : UpperCase[i] = c]
    ELSE c

\* A faulty variant of ToLowerChar: the case of every letter is swapped.
SwapCaseChar(c) ==
    IF IsUpperChar(c)
    THEN LowerCase[CHOOSE i \in 1..Len(UpperCase) : UpperCase[i] = c]
    ELSE IF \E i \in 1..Len(LowerCase) : LowerCase[i] = c
         THEN UpperCase[CHOOSE i \in 1..Len(LowerCase) : LowerCase[i] = c]
         ELSE c

\* str::to_lowercase
to_lowercase(s) == [i \in 1..Len(s) |-> ToLowerChar(s[i])]

HasUpper(s) == \E i \in 1..Len(s) : IsUpperChar(s[i])

\* str::replace(".", "-")
replace_dot_dash(s) == [i \in 1..Len(s) |-> IF s[i] = "." THEN "-" ELSE s[i]]

RECURSIVE Join(_, _)
\* [String]::join(sep)
Join(parts, sep) ==
    IF Len(parts) = 0 THEN <<>>
    ELSE IF Len(parts) = 1 THEN parts[1]
    ELSE parts[1] \o sep \o Join(Tail(parts), sep)

\* s is a contiguous part of t
Contains(t, s) ==
    \E i \in 0..(Len(t) - Len(s)) : SubSeq(t, i + 1, i + Len(s)) = s

Range(f) == {f[x] : x \in DOMAIN f}

\* All the orders in which the elements of a finite set can be enumerated.
Orders(S) ==
    {o \in [1..Cardinality(S) -> S] : \A i, j \in DOMAIN o : o[i] = o[j] => i = j}

RECURSIVE Flatten(_)
\* Iterator::flatten of a sequence of sequences
Flatten(s) == IF Len(s) = 0 THEN <<>> ELSE s[1] \o Flatten(Tail(s))

Digit == <<"0","1","2","3","4","5","6","7","8","9">>

RECURSIVE Decimal(_)
\* format!("{}", n) of a non-negative integer
Decimal(n) ==
    IF n < 10 THEN <<Digit[n + 1]>>
    ELSE Decimal(n \div 10) \o <<Digit[(n % 10) + 1]>>

\* ------------------------------------------------------------------ labels
APP_NAME_LABEL == "com.aixigo.preview.servant.app-name"
SERVICE_NAME_LABEL == "com.aixigo.preview.servant.service-name"
CONTAINER_TYPE_LABEL == "com.aixigo.preview.servant.container-type"
IMAGE_LABEL == "com.aixigo.preview.servant.image"
REPLICATED_ENV_LABEL == "com.aixigo.preview.servant.replicated-env"
STORAGE_TYPE_LABEL == "com.aixigo.preview.servant.storage-type"

\* ------------------------------------------------------------------ AppName
\* AppName's Display (app_name.to_string(), format!("{}", app_name)): the
\* identifier as the caller gave it.
AppNameToString(app_name) == app_name

\* AppName's Serialize, used where json! embeds app_name.
AppNameSerialize(app_name) == app_name

\* A faulty variant of to_rfc1123_namespace_id: letters change case instead of
\* being lowered.
to_rfc1123_namespace_id_swapcase(app_name) ==
    [i \in 1..Len(AppNameToString(app_name)) |->
        SwapCaseChar(AppNameToString(app_name)[i])]

\* AppName::to_rfc1123_namespace_id
to_rfc1123_namespace_id(app_name) == to_lowercase(AppNameToString(app_name))

\* ------------------------------------------------------------------ paths
\* A PathBuf of the descriptor is its sequence of normal components and
\* whether it starts at the root: [abs |-> BOOLEAN, comps |-> Seq(text)].
Path(abs, comps) == [abs |-> abs, comps |-> comps]

\* Path::parent
PathParent(p) ==
    IF Len(p.comps) = 0 THEN None
    ELSE Some(Path(p.abs, SubSeq(p.comps, 1, Len(p.comps) - 1)))

\* Path::file_name
PathFileName(p) ==
    IF Len(p.comps) = 0 THEN None ELSE Some(p.comps[Len(p.comps)])

\* Path::to_string_lossy
PathToString(p) == (IF p.abs THEN <<"/">> ELSE <<>>) \o Join(p.comps, <<"/">>)

\* secret_name_from_path!: the normal components, dots replaced, joined by "-"
secret_name_from_path(p) ==
    Join([i \in 1..Len(p.comps) |-> replace_dot_dash(p.comps[i])], <<"-">>)

\* secret_name_from_name!: the file name with dots replaced, "" without one
secret_name_from_name(p) ==
    IF IsSome(PathFileName(p))
    THEN replace_dot_dash(Unwrap(PathFileName(p)))
    ELSE <<>>

\* ------------------------------------------------------------------ text constants
TxtDeployment == <<"-","d","e","p","l","o","y","m","e","n","t">>
TxtSecret == <<"-","s","e","c","r","e","t">>
TxtImagePullSecret == <<"-","i","m","a","g","e","-","p","u","l","l","-","s","e","c","r","e","t">>
TxtIngressRoute == <<"-","i","n","g","r","e","s","s","-","r","o","u","t","e">>
TxtPvc == <<"-","p","v","c","-">>
TxtVolume == <<"-","v","o","l","u","m","e">>
TxtDefault == <<"d","e","f","a","u","l","t">>
TxtDash == <<"-">>

\* ContainerType's Display
ContainerTypeToString(container_type) ==
    CASE container_type = "Instance" -> <<"i","n","s","t","a","n","c","e">>
      [] container_type = "Replica" -> <<"r","e","p","l","i","c","a">>
      [] container_type = "ApplicationCompanion" ->
            <<"a","p","p","-","c","o","m","p","a","n","i","o","n">>
      [] container_type = "ServiceCompanion" ->
            <<"s","e","r","v","i","c","e","-","c","o","m","p","a","n","i","o","n">>

\* DateTime<Utc>::to_rfc3339 of the clock reading t (seconds)
to_rfc3339(t) == Decimal(t) \o <<"Z">>

\* ------------------------------------------------------------------ payload shapes
\* kube::core::ObjectMeta { ..Default::default() }
ObjectMetaDefault ==
    [name |-> None, namespace |-> None, generate_name |-> None,
     labels |-> None, annotations |-> None]

\* What serde keeps of a JSON object when it is read as an ObjectMeta: the
\* fields of ObjectMeta; any other key of the object is ignored.
ObjectMetaFromValue(json) ==
    [name |-> IF "name" \in DOMAIN json THEN Some(json["name"]) ELSE None,
     namespace |-> IF "namespace" \in DOMAIN json THEN Some(json["namespace"]) ELSE None,
     generate_name |->
        IF "generateName" \in DOMAIN json THEN Some(json["generateName"]) ELSE None,
     labels |-> IF "labels" \in DOMAIN json THEN Some(json["labels"]) ELSE None,
     annotations |->
        IF "annotations" \in DOMAIN json THEN Some(json["annotations"]) ELSE None]

\* BTreeMap::get(key)
MapGet(map, key) == IF key \in DOMAIN map THEN Some(map[key]) ELSE None

\* Option::unwrap_or
UnwrapOr(o, default) == IF IsSome(o) THEN Unwrap(o) ELSE default

EmptyMap == <<>>

\* ------------------------------------------------------------------ descriptor
\* The file paths of the model in the order of PathBuf's Ord (component by
\* component, the root first): "/", "/d/volume/x", "/e/m-c", "/e/m.c",
\* "/e/n", "/f/m.c", "/g/m/c/x", "/g/m.c/x", "/n".
PathOrder ==
    << Path(TRUE, <<>>),
       Path(TRUE, << <<"d">>, <<"v","o","l","u","m","e">>, <<"x">> >>),
       Path(TRUE, << <<"e">>, <<"m","-","c">> >>),
       Path(TRUE, << <<"e">>, <<"m",".","c">> >>),
       Path(TRUE, << <<"e">>, <<"n">> >>),
       Path(TRUE, << <<"f">>, <<"m",".","c">> >>),
       Path(TRUE, << <<"g">>, <<"m">>, <<"c">>, <<"x">> >>),
       Path(TRUE, << <<"g">>, <<"m",".","c">>, <<"x">> >>),
       Path(TRUE, << <<"n">> >>) >>

\* The file paths the descriptors of the synthesis inputs are drawn from:
\* "/", "/e/m.c", "/e/n", "/f/m.c".
DescriptorPaths == << PathOrder[1], PathOrder[4], PathOrder[5], PathOrder[6] >>

\* The declared files of a descriptor in the iteration order of their
\* BTreeMap<PathBuf, SecUtf8>.
SortedPaths(files) == SelectSeq(PathOrder, LAMBDA p : p \in DOMAIN files)

\* files.iter().filter_map(|(path, _)| path.parent()).collect::<HashSet<_>>()
ParentPaths(files) ==
    {Unwrap(PathParent(p)) : p \in {q \in DOMAIN files : IsSome(PathParent(q))}}

\* ------------------------------------------------------------------ volumes
\* pvc_volume_mount_payload
pvc_volume_mount_payload(path, persitent_volume_claim) ==
    [name |->
        UnwrapOr(MapGet(UnwrapOr(persitent_volume_claim.metadata.labels, EmptyMap),
                        STORAGE_TYPE_LABEL),
                 TxtDefault) \o TxtVolume,
     mount_path |-> path]

\* pvc_volume_payload
pvc_volume_payload(persistent_volume_claim) ==
    [name |->
        UnwrapOr(MapGet(UnwrapOr(persistent_volume_claim.metadata.labels, EmptyMap),
                        STORAGE_TYPE_LABEL),
                 TxtDefault) \o TxtVolume,
     secret |-> None,
     persistent_volume_claim |->
        Some([claim_name |-> UnwrapOr(persistent_volume_claim.metadata.name, <<>>)])]

\* A faulty variant of deployment_annotations: never-force is handled like
\* always-force.
deployment_annotations_never_dated(service, now) ==
    CASE service.strategy.kind = "RedeployOnImageUpdate" ->
            ("imageHash" :> service.strategy.image_id)
      [] service.strategy.kind = "RedeployNever" -> ("date" :> to_rfc3339(now))
      [] service.strategy.kind = "RedeployAlways" -> ("date" :> to_rfc3339(now))

\* deployment_annotations; now is what Utc::now() returns in this call
deployment_annotations(service, now) ==
    CASE service.strategy.kind = "RedeployOnImageUpdate" ->
            ("imageHash" :> service.strategy.image_id)
      [] service.strategy.kind = "RedeployNever" -> EmptyMap
      [] service.strategy.kind = "RedeployAlways" -> ("date" :> to_rfc3339(now))

\* replicated_environment_variable_to_json: the summary of the replicated
\* variables of an environment, None when no variable is replicated.
replicated_environment_variable_to_json(env) ==
    LET replicated == {i \in 1..Len(env) : env[i].replicate}
    IN  IF replicated = {} THEN None
        ELSE Some([k \in {env[i].key : i \in replicated} |->
                    LET v == env[CHOOSE i \in replicated : env[i].key = k]
                    IN  [value |-> v.value, templated |-> v.templated,
                         replicate |-> v.replicate]])

\* The file-backed volume of one parent directory (payloads.rs 265-290).
SecretVolume(app_name, service, parent) ==
    LET paths == SelectSeq(SortedPaths(Unwrap(service.files)),
                           LAMBDA p : PathParent(p) = Some(parent))
        items == [i \in 1..Len(paths) |->
                    [key |-> secret_name_from_name(paths[i]),
                     path |-> UnwrapOr(PathFileName(paths[i]), <<>>)]]
    IN  [name |-> secret_name_from_path(parent),
         secret |-> Some([secret_name |->
                             Some(AppNameToString(app_name) \o TxtDash
                                  \o service.service_name \o TxtSecret),
                          items |-> Some(items)]),
         persistent_volume_claim |-> None]

\* let env (payloads.rs 208-216)
DeploymentEnv(service) ==
    IF IsSome(service.env)
    THEN Some([i \in 1..Len(Unwrap(service.env)) |->
                [name |-> Unwrap(service.env)[i].key,
                 value |-> Some(Unwrap(service.env)[i].value)]])
    ELSE None

\* let annotations (payloads.rs 218-228): the workload object's annotations
DeploymentObjectAnnotations(service) ==
    LET replicated_env ==
            IF IsSome(service.env)
            THEN replicated_environment_variable_to_json(Unwrap(service.env))
            ELSE None
    IN  IF IsSome(replicated_env)
        THEN (IMAGE_LABEL :> service.image)
             @@ (REPLICATED_ENV_LABEL :> Unwrap(replicated_env))
        ELSE (IMAGE_LABEL :> service.image)

\* A faulty variant of FileVolumeMounts: one mount per declared file instead of one
\* per parent directory.
FileVolumeMountsPerFile(service, rt) ==
    IF IsSome(service.files)
    THEN LET paths == SortedPaths(Unwrap(service.files))
         IN  Some(Flatten([i \in DOMAIN paths |->
                    IF IsSome(PathParent(paths[i]))
                    THEN << [name |-> secret_name_from_path(Unwrap(PathParent(paths[i]))),
                             mount_path |-> PathToString(Unwrap(PathParent(paths[i])))] >>
                    ELSE <<>>]))
    ELSE None

\* let volume_mounts (payloads.rs 230-244): one mount per parent directory,
\* in the iteration order of the HashSet of parents
FileVolumeMounts(service, rt) ==
    IF IsSome(service.files)
    THEN Some([i \in 1..Len(rt.parent_order) |->
                [name |-> secret_name_from_path(rt.parent_order[i]),
                 mount_path |-> PathToString(rt.parent_order[i])]])
    ELSE None

\* let volume_mounts (payloads.rs 246-255): the mounts of the bound volumes
\* are pushed after the file-backed ones
VolumeMounts(service, persistent_volume_map, rt) ==
    IF IsSome(persistent_volume_map)
    THEN Some(UnwrapOr(FileVolumeMounts(service, rt), <<>>)
              \o [i \in 1..Len(Unwrap(persistent_volume_map).iter) |->
                    pvc_volume_mount_payload(
                        Unwrap(persistent_volume_map).iter[i],
                        Unwrap(persistent_volume_map).entries[
                            Unwrap(persistent_volume_map).iter[i]])])
    ELSE FileVolumeMounts(service, rt)

\* let volumes (payloads.rs 257-292): one volume per parent directory, in
\* the iteration order of the MultiMap of files by parent
FileVolumes(app_name, service, rt) ==
    IF IsSome(service.files)
    THEN Some([i \in 1..Len(rt.multimap_order) |->
                SecretVolume(app_name, service, rt.multimap_order[i])])
    ELSE None

\* let volumes (payloads.rs 294-304)
Volumes(app_name, service, persistent_volume_map, rt) ==
    IF IsSome(persistent_volume_map)
    THEN Some(UnwrapOr(FileVolumes(app_name, service, rt), <<>>)
              \o [i \in 1..Len(Unwrap(persistent_volume_map).iter) |->
                    pvc_volume_payload(
                        Unwrap(persistent_volume_map).entries[
                            Unwrap(persistent_volume_map).iter[i]])])
    ELSE FileVolumes(app_name, service, rt)

\* let resources (payloads.rs 306-314)
Resources(container_config) ==
    IF IsSome(container_config.memory_limit)
    THEN Some([limits |->
                Some("memory" :> Decimal(Unwrap(container_config.memory_limit)))])
    ELSE None

\* A faulty variant of DeploymentLabels: the service-name label is left out.
DeploymentLabelsNoService(app_name, service) ==
    (APP_NAME_LABEL :> AppNameToString(app_name))
    @@ (CONTAINER_TYPE_LABEL :> ContainerTypeToString(service.container_type))

\* let labels (payloads.rs 316-326)
DeploymentLabels(app_name, service) ==
    (APP_NAME_LABEL :> AppNameToString(app_name))
    @@ (SERVICE_NAME_LABEL :> service.service_name)
    @@ (CONTAINER_TYPE_LABEL :> ContainerTypeToString(service.container_type))

\* A faulty variant of DeploymentName: the name carries the clock reading of the
\* call, like a generated name.
DeploymentNameDated(app_name, service, rt) ==
    to_rfc1123_namespace_id(app_name) \o TxtDash \o service.service_name
    \o TxtDeployment \o TxtDash \o Decimal(rt.now)

\* metadata.name (payloads.rs 330-334)
DeploymentName(app_name, service, rt) ==
    to_rfc1123_namespace_id(app_name) \o TxtDash \o service.service_name
    \o TxtDeployment

\* template.metadata.annotations (payloads.rs 349)
PodTemplateAnnotations(service, rt) == deployment_annotations(service, rt.now)

\* A faulty variant of ImagePullSecrets: the reference is built from the
\* application identifier as given.
ImagePullSecretsRaw(app_name, use_image_pull_secret) ==
    IF use_image_pull_secret
    THEN Some(<< [name |-> Some(AppNameToString(app_name) \o TxtImagePullSecret)] >>)
    ELSE None

\* image_pull_secrets (payloads.rs 367-376)
ImagePullSecrets(app_name, use_image_pull_secret) ==
    IF use_image_pull_secret
    THEN Some(<< [name |-> Some(to_rfc1123_namespace_id(app_name)
                                \o TxtImagePullSecret)] >>)
    ELSE None

\* deployment_payload.  rt is what the run time decides in this call: the
\* reading of the clock (now) and the iteration orders of the two hash
\* containers the call builds, the HashSet of parent directories
\* (parent_order) and the MultiMap of files by parent (multimap_order).
\* persistent_volume_map is the caller's HashMap: its entries and the order
\* in which this map iterates (iter).
deployment_payload(app_name, service, container_config, use_image_pull_secret, persistent_volume_map, rt) ==
    [kind |-> "Deployment",
     metadata |->
        [ObjectMetaDefault EXCEPT
            !.name = Some(DeploymentName(app_name, service, rt)),
            !.namespace = Some(to_rfc1123_namespace_id(app_name)),
            !.labels = Some(DeploymentLabels(app_name, service)),
            !.annotations = Some(DeploymentObjectAnnotations(service))],
     spec |->
        [replicas |-> Some(1),
         selector |-> [match_labels |-> Some(DeploymentLabels(app_name, service))],
         template |->
            [metadata |->
                [ObjectMetaDefault EXCEPT
                    !.labels = Some(DeploymentLabels(app_name, service)),
                    !.annotations = Some(PodTemplateAnnotations(service, rt))],
             spec |->
                [volumes |-> Volumes(app_name, service, persistent_volume_map, rt),
                 containers |->
                    << [name |-> service.service_name,
                        image |-> Some(service.image),
                        image_pull_policy |-> Some("Always"),
                        env |-> DeploymentEnv(service),
                        volume_mounts |->
                            VolumeMounts(service, persistent_volume_map, rt),
                        ports |-> Some(<< [container_port |-> service.port] >>),
                        resources |-> Resources(container_config)] >>,
                 image_pull_secrets |->
                    ImagePullSecrets(app_name, use_image_pull_secret)]]]]

\* ------------------------------------------------------------------ scale
\* PodTemplateSpec::default(), which DeploymentSpec's deserializer takes for
\* the template that the JSON document leaves out.
PodTemplateSpecDefault == [metadata |-> None, spec |-> None]

\* The JSON document of deployment_replicas_payload (payloads.rs 409-431).
DeploymentReplicasJson(app_name, service, replicas) ==
    [metadata |->
        ("name" :> (to_rfc1123_namespace_id(app_name) \o TxtDash
                    \o service.service_name \o TxtDeployment))
        @@ ("namespace" :> to_rfc1123_namespace_id(app_name))
        @@ ("labels" :>
                ((APP_NAME_LABEL :> AppNameSerialize(app_name))
                 @@ (SERVICE_NAME_LABEL :> service.service_name)
                 @@ (CONTAINER_TYPE_LABEL :>
                        ContainerTypeToString(service.container_type)))),
     spec |->
        [replicas |-> replicas,
         selector |->
            [matchLabels |->
                ((APP_NAME_LABEL :> AppNameSerialize(app_name))
                 @@ (SERVICE_NAME_LABEL :> service.service_name)
                 @@ (CONTAINER_TYPE_LABEL :>
                        ContainerTypeToString(service.container_type)))]]]

\* A faulty variant of deployment_replicas_payload: the name is built from
\* the application identifier as given.
deployment_replicas_payload_raw_name(app_name, service, replicas) ==
    LET json == DeploymentReplicasJson(app_name, service, replicas)
    IN  [kind |-> "Deployment",
         metadata |->
            [ObjectMetaFromValue(json.metadata) EXCEPT
                !.name = Some(AppNameToString(app_name) \o TxtDash
                              \o service.service_name \o TxtDeployment)],
         spec |->
            [replicas |-> Some(json.spec.replicas),
             selector |-> [match_labels |-> Some(json.spec.selector.matchLabels)],
             template |-> PodTemplateSpecDefault]]

\* deployment_replicas_payload: the JSON document read as an apps/v1
\* Deployment
deployment_replicas_payload(app_name, service, replicas) ==
    LET json == DeploymentReplicasJson(app_name, service, replicas)
    IN  [kind |-> "Deployment",
         metadata |-> ObjectMetaFromValue(json.metadata),
         spec |->
            [replicas |-> Some(json.spec.replicas),
             selector |-> [match_labels |-> Some(json.spec.selector.matchLabels)],
             template |-> PodTemplateSpecDefault]]

\* ------------------------------------------------------------------ namespace
\* A faulty variant of namespace_payload: the annotations of the runtime
\* configuration are passed on as they are, an empty map included.
namespace_payload_empty_annotations(app_name, config) ==
    [kind |-> "Namespace",
     metadata |->
        [ObjectMetaDefault EXCEPT
            !.name = Some(to_rfc1123_namespace_id(app_name)),
            !.annotations = IF config.runtime = "Docker" THEN None
                            ELSE Some(config.namespace_annotations),
            !.labels = Some(APP_NAME_LABEL :> AppNameToString(app_name))]]

\* namespace_payload
namespace_payload(app_name, config) ==
    LET annotations ==
            IF config.runtime = "Docker" THEN None
            ELSE IF config.namespace_annotations = EmptyMap THEN None
                 ELSE Some(config.namespace_annotations)
    IN  [kind |-> "Namespace",
         metadata |->
            [ObjectMetaDefault EXCEPT
                !.name = Some(to_rfc1123_namespace_id(app_name)),
                !.annotations = annotations,
                !.labels = Some(APP_NAME_LABEL :> AppNameToString(app_name))]]

\* ------------------------------------------------------------------ secrets
\* general_purpose::STANDARD.encode, as the text it yields
Base64Encode(bytes) == [base64 |-> bytes]

\* k8s_openapi::ByteString read from a JSON string: the decoded bytes
ByteStringFromValue(v) == v.base64

\* The entries of the file secret (payloads.rs 441-449): collected into a
\* map, so of two files with one key the later in path order stays.
SecretEntries(files) ==
    LET paths == SortedPaths(files)
        keys == {secret_name_from_name(paths[i]) : i \in 1..Len(paths)}
        last(k) == CHOOSE i \in 1..Len(paths) :
                      /\ secret_name_from_name(paths[i]) = k
                      /\ \A j \in 1..Len(paths) :
                            secret_name_from_name(paths[j]) = k => j <= i
    IN  [k \in keys |-> Base64Encode(files[paths[last(k)]])]

\* secrets_payload: the JSON document (payloads.rs 451-463) read as a
\* core/v1 Secret
secrets_payload(app_name, service_config, files) ==
    LET json ==
            [metadata |->
                ("name" :> (to_rfc1123_namespace_id(app_name) \o TxtDash
                            \o service_config.service_name \o TxtSecret))
                @@ ("namespace" :> to_rfc1123_namespace_id(app_name))
                @@ (APP_NAME_LABEL :> AppNameSerialize(app_name))
                @@ (SERVICE_NAME_LABEL :> service_config.service_name)
                @@ (CONTAINER_TYPE_LABEL :>
                        ContainerTypeToString(service_config.container_type)),
             type |-> "Opaque",
             data |-> SecretEntries(files)]
    IN  [kind |-> "Secret",
         metadata |-> ObjectMetaFromValue(json.metadata),
         type |-> Some(json.type),
         immutable |-> None,
         data |-> Some([k \in DOMAIN json.data |-> ByteStringFromValue(json.data[k])])]

\* image_pull_secret_payload
image_pull_secret_payload(app_name, registries_and_credentials) ==
    [kind |-> "Secret",
     metadata |->
        [ObjectMetaDefault EXCEPT
            !.name = Some(to_rfc1123_namespace_id(app_name) \o TxtImagePullSecret),
            !.namespace = Some(to_rfc1123_namespace_id(app_name)),
            !.labels = Some(APP_NAME_LABEL :> AppNameToString(app_name))],
     type |-> Some("kubernetes.io/dockerconfigjson"),
     immutable |-> Some(TRUE),
     data |-> Some(".dockerconfigjson" :>
                    [auths |-> [r \in DOMAIN registries_and_credentials |->
                        [username |-> registries_and_credentials[r][1],
                         password |-> registries_and_credentials[r][2]]]])]

\* ------------------------------------------------------------------ service
\* The metadata object of the JSON document of service_payload
\* (payloads.rs 516-521).
ServiceMetadataJson(app_name, service_config) ==
    ("name" :> service_config.service_name)
    @@ (APP_NAME_LABEL :> AppNameSerialize(app_name))
    @@ (SERVICE_NAME_LABEL :> service_config.service_name)
    @@ (CONTAINER_TYPE_LABEL :> ContainerTypeToString(service_config.container_type))

\* A faulty variant of ServiceSelector: the selector names the application only.
ServiceSelectorAppOnly(app_name, service_config) ==
    (APP_NAME_LABEL :> AppNameSerialize(app_name))

\* spec.selector of service_payload (payloads.rs 530-534)
ServiceSelector(app_name, service_config) ==
    (APP_NAME_LABEL :> AppNameSerialize(app_name))
    @@ (SERVICE_NAME_LABEL :> service_config.service_name)
    @@ (CONTAINER_TYPE_LABEL :> ContainerTypeToString(service_config.container_type))

\* service_payload: the JSON document read as a core/v1 Service; the
\* document's top-level "namespace" is no field of a Service and is ignored.
service_payload(app_name, service_config) ==
    [kind |-> "Service",
     metadata |-> ObjectMetaFromValue(ServiceMetadataJson(app_name, service_config)),
     spec |->
        [ports |-> Some(<< [name |-> Some(service_config.service_name),
                            target_port |-> Some(service_config.port),
                            port |-> service_config.port] >>),
         selector |-> Some(ServiceSelector(app_name, service_config))]]

\* ------------------------------------------------------------------ routing
\* AppName::from_str: the identifier when the text is a valid application
\* identifier (no separator or blank in it), None otherwise.
AppNameFromStr(name) ==
    IF Len(name) > 0 /\ \A i \in 1..Len(name) : name[i] \notin {"/", " "}
    THEN Some(name)
    ELSE None

\* The name under which a route references a middleware
\* (payloads.rs 553-564).
ResolvedMiddlewareName(middleware) ==
    IF middleware.kind = "Ref" THEN middleware.name
    ELSE IF IsSome(AppNameFromStr(middleware.name))
         THEN to_rfc1123_namespace_id(Unwrap(AppNameFromStr(middleware.name)))
         ELSE middleware.name

\* TraefikRouterRule's Display (route.rule().to_string()): the match text of
\* the rule.
TraefikRouterRuleToString(rule) == rule

\* One rule of the routing route (payloads.rs 549-579).
TraefikRuleSpec(service, route) ==
    [kind |-> "Rule",
     match |-> TraefikRouterRuleToString(route.rule),
     middlewares |->
        Some([i \in 1..Len(route.middlewares) |->
                [name |-> ResolvedMiddlewareName(route.middlewares[i])]]),
     services |-> << [kind |-> Some("Service"),
                      name |-> service.service_name,
                      port |-> Some(service.port)] >>]

\* A faulty variant of ingress_route_payload: only the first route entry of
\* the descriptor becomes a rule.
ingress_route_payload_first_route_only(app_name, service) ==
    [kind |-> "IngressRoute",
     metadata |->
        [ObjectMetaDefault EXCEPT
            !.name = Some(to_rfc1123_namespace_id(app_name) \o TxtDash
                          \o service.service_name \o TxtIngressRoute),
            !.namespace = Some(to_rfc1123_namespace_id(app_name)),
            !.annotations =
                Some((APP_NAME_LABEL :> AppNameToString(app_name))
                     @@ (SERVICE_NAME_LABEL :> service.service_name)
                     @@ (CONTAINER_TYPE_LABEL :>
                            ContainerTypeToString(service.container_type))
                     @@ ("traefik.ingress.kubernetes.io/router.entrypoints" :>
                            <<"w","e","b">>))],
     spec |->
        [entrypoints |-> None,
         routes |-> Some([i \in 1..(IF Len(service.ingress_route.routes) > 0 THEN 1 ELSE 0) |->
                            TraefikRuleSpec(service, service.ingress_route.routes[i])]),
         tls |-> None]]

\* ingress_route_payload
ingress_route_payload(app_name, service) ==
    [kind |-> "IngressRoute",
     metadata |->
        [ObjectMetaDefault EXCEPT
            !.name = Some(to_rfc1123_namespace_id(app_name) \o TxtDash
                          \o service.service_name \o TxtIngressRoute),
            !.namespace = Some(to_rfc1123_namespace_id(app_name)),
            !.annotations =
                Some((APP_NAME_LABEL :> AppNameToString(app_name))
                     @@ (SERVICE_NAME_LABEL :> service.service_name)
                     @@ (CONTAINER_TYPE_LABEL :>
                            ContainerTypeToString(service.container_type))
                     @@ ("traefik.ingress.kubernetes.io/router.entrypoints" :>
                            <<"w","e","b">>))],
     spec |->
        [entrypoints |-> None,
         routes |-> Some([i \in 1..Len(service.ingress_route.routes) |->
                            TraefikRuleSpec(service, service.ingress_route.routes[i])]),
         tls |-> None]]

\* A faulty variant of MiddlewareObjectName: the object keeps the name of
\* the entry as it is.
MiddlewareObjectNameRaw(middleware) == middleware.name

\* The name of the object of an inline middleware (payloads.rs 627-633).
MiddlewareObjectName(middleware) ==
    IF IsSome(AppNameFromStr(middleware.name))
    THEN to_rfc1123_namespace_id(Unwrap(AppNameFromStr(middleware.name)))
    ELSE middleware.name

\* The inline middlewares of one route, in order (payloads.rs 624-634).
RouteSpecMiddlewares(route) ==
    SelectSeq(route.middlewares, LAMBDA m : m.kind = "Spec")

\* middleware_payload: one object per inline middleware entry
middleware_payload(app_name, service) ==
    LET routes == service.ingress_route.routes
        specs == Flatten([i \in DOMAIN routes |-> RouteSpecMiddlewares(routes[i])])
    IN  [i \in 1..Len(specs) |->
            [kind |-> "Middleware",
             metadata |->
                [ObjectMetaDefault EXCEPT
                    !.name = Some(MiddlewareObjectName(specs[i])),
                    !.namespace = Some(to_rfc1123_namespace_id(app_name))],
             spec |-> specs[i].spec]]

\* ------------------------------------------------------------------ storage claim
\* declared_volume.split('/').last(): the text after the last '/', the
\* whole text without one; split yields at least one part, so never None.
SplitLast(text) ==
    LET slashes == {i \in 1..Len(text) : text[i] = "/"}
        from == IF slashes = {} THEN 1
                ELSE 1 + CHOOSE i \in slashes : \A j \in slashes : j <= i
    IN  Some(SubSeq(text, from, Len(text)))

\* persistent_volume_claim_payload
persistent_volume_claim_payload(app_name, service, storage_size, storage_class, declared_volume) ==
    [kind |-> "PersistentVolumeClaim",
     metadata |->
        [ObjectMetaDefault EXCEPT
            !.generate_name = Some(to_rfc1123_namespace_id(app_name) \o TxtDash
                                   \o service.service_name \o TxtPvc),
            !.labels =
                Some((APP_NAME_LABEL :> AppNameToString(app_name))
                     @@ (SERVICE_NAME_LABEL :> service.service_name)
                     @@ (STORAGE_TYPE_LABEL :>
                            UnwrapOr(SplitLast(declared_volume), TxtDefault)))],
     spec |->
        [storage_class_name |-> Some(storage_class),
         access_modes |-> Some(<< "ReadWriteOnce" >>),
         resources |-> Some([requests |-> Some("storage" :> Decimal(storage_size))])]]

\* ------------------------------------------------------------------ inputs
\* The application identifiers of the backend specification: two that
\* differ in case only, and a third.
DeployAppNames == { <<"M","Y">>, <<"m","y">>, <<"q">> }

ServiceNames == { <<"d","b">>, <<"w">> }

ImageText == <<"i","m","g">>

RedeployNever == [kind |-> "RedeployNever"]
RedeployAlways == [kind |-> "RedeployAlways"]
RedeployOnImageUpdate(image_id) ==
    [kind |-> "RedeployOnImageUpdate", image_id |-> image_id]

EnvVar(key, replicate) ==
    [key |-> key, value |-> <<"v">>, templated |-> FALSE, replicate |-> replicate]

\* The content of the declared file at a path: its rank in PathOrder.
FileContent(p) == << Digit[1 + CHOOSE i \in 1..Len(PathOrder) : PathOrder[i] = p] >>

\* The declared files of a descriptor: absent, or at most MaxFiles paths.
FileMaps ==
    {None} \cup
    { Some([p \in S |-> FileContent(p)]) :
        S \in {T \in SUBSET Range(DescriptorPaths) : Cardinality(T) <= MaxFiles} }

\* An existing storage claim as the backend returns it.
Claim(name, labels) ==
    [kind |-> "PersistentVolumeClaim",
     metadata |-> [ObjectMetaDefault EXCEPT !.name = Some(name), !.labels = labels]]

\* The HashMaps with the given entries: one per iteration order.
HashMaps(entries) ==
    { [entries |-> entries, iter |-> o] : o \in Orders(DOMAIN entries) }

\* The bindings of declared volumes to existing claims: none given, one
\* labelled claim, a labelled and an unlabelled claim.
PersistentVolumeMaps ==
    {None}
    \cup { Some(m) : m \in HashMaps(
            <<"/","d">> :> Claim(<<"c","1">>, Some(STORAGE_TYPE_LABEL :> <<"d">>))) }
    \cup { Some(m) : m \in HashMaps(
            (<<"/","d">> :> Claim(<<"c","1">>, Some(STORAGE_TYPE_LABEL :> <<"d">>)))
            @@ (<<"/","p">> :> Claim(<<"c","2">>, None))) }

\* TraefikIngressRoute::with_defaults(app_name, service_name): one route
\* with the inline strip-prefix middleware "{app}-{service}-middleware".
IngressRouteWithDefaults(app_name, service_name) ==
    [entrypoints |-> <<>>,
     routes |-> << [rule |-> <<"/">> \o AppNameToString(app_name) \o <<"/">>
                            \o service_name \o <<"/">>,
                    middlewares |->
                        << [kind |-> "Spec",
                            name |-> AppNameToString(app_name) \o TxtDash
                                     \o service_name
                                     \o <<"-","m","i","d","d","l","e","w","a","r","e">>,
                            spec |-> "stripPrefix"] >>] >>,
     tls |-> None]

\* DeployableService
DeployableService(service_name, container_type, strategy, env, files, ingress_route, declared_volumes) ==
    [service_name |-> service_name, image |-> ImageText, port |-> 80,
     container_type |-> container_type, strategy |-> strategy, env |-> env,
     files |-> files, ingress_route |-> ingress_route,
     declared_volumes |-> declared_volumes]

\* What the run time may decide in one call of deployment_payload; the clock
\* is read under the always-force strategy only (now = 0 stands for no reading).
\* bound_order is the iteration order of the HashMap of bound volumes that a
\* deploy builds for the declared volumes of the service.
RuntimeChoices(service) ==
    LET parents == IF IsSome(service.files) THEN ParentPaths(Unwrap(service.files))
                   ELSE {}
    IN  { [now |-> t, parent_order |-> po, multimap_order |-> mo, bound_order |-> bo] :
            t \in (IF service.strategy.kind = "RedeployAlways" THEN 1..MaxClock ELSE {0}),
            po \in Orders(parents), mo \in Orders(parents),
            bo \in Orders(Range(service.declared_volumes)) }

Registries == (<<"r">> :> << <<"u">>, <<"p">> >>)

\* One synthesis pass over a descriptor: every object the engine emits for
\* it.  clock_reads are the readings Utc::now() returned during the pass.
SynthesisPass(in, rt) ==
    [clock_reads |-> IF in.service.strategy.kind = "RedeployAlways"
                     THEN << rt.now >> ELSE <<>>,
     namespace |-> namespace_payload(in.app_name, in.config),
     image_pull_secret |-> image_pull_secret_payload(in.app_name, Registries),
     secret |-> IF IsSome(in.service.files)
                THEN Some(secrets_payload(in.app_name, in.service,
                                          Unwrap(in.service.files)))
                ELSE None,
     deployment |-> deployment_payload(in.app_name, in.service, in.container_config,
                                       in.use_image_pull_secret,
                                       in.persistent_volume_map, rt),
     service |-> service_payload(in.app_name, in.service),
     ingress_route |-> ingress_route_payload(in.app_name, in.service),
     middlewares |-> middleware_payload(in.app_name, in.service),
     claims |-> [i \in 1..Len(in.service.declared_volumes) |->
                    persistent_volume_claim_payload(
                        in.app_name, in.service, 1, <<"s","c">>,
                        in.service.declared_volumes[i])]]

\* ------------------------------------------------------------------ backend
\* The backend's store: a function from <<kind, namespace, name>> to the
\* stored object and the deploy that last wrote it (by: its application
\* identifier and its descriptor, None for the namespace object).
StoreKey(namespace, object) ==
    << object.kind, namespace, Unwrap(object.metadata.name) >>

\* Apply as an upsert keyed by (kind, namespace, name).
Apply(st, namespace, object, by) ==
    (StoreKey(namespace, object) :> [object |-> object, by |-> by]) @@ st

RECURSIVE ApplyAll(_, _, _, _)
ApplyAll(st, namespace, objects, by) ==
    IF Len(objects) = 0 THEN st
    ELSE ApplyAll(Apply(st, namespace, objects[1], by), namespace, Tail(objects), by)

\* The objects one deploy of a service applies inside the namespace of its
\* application, in order.
DeployedObjects(in, pass) ==
    (IF in.use_image_pull_secret THEN << pass.image_pull_secret >> ELSE <<>>)
    \o (IF IsSome(pass.secret) THEN << Unwrap(pass.secret) >> ELSE <<>>)
    \o << pass.deployment, pass.service, pass.ingress_route >>
    \o pass.middlewares

\* The stored storage claims of a namespace that a lookup by the labels of
\* the given claim finds.
MatchingClaims(st, namespace, claim) ==
    {k \in DOMAIN st :
        /\ k[1] = "PersistentVolumeClaim"
        /\ k[2] = namespace
        /\ st[k].object.metadata.labels = claim.metadata.labels}

RECURSIVE ApplyClaims(_, _, _, _)
\* A storage claim is created, under a name the backend generates from the
\* prefix, only when the lookup by label finds none.
ApplyClaims(st, namespace, claims, by) ==
    IF Len(claims) = 0 THEN st
    ELSE IF MatchingClaims(st, namespace, claims[1]) # {}
         THEN ApplyClaims(st, namespace, Tail(claims), by)
         ELSE LET suffix == Decimal(Cardinality(
                                {k \in DOMAIN st : k[1] = "PersistentVolumeClaim"}))
                  created ==
                      [claims[1] EXCEPT
                          !.metadata.name =
                              Some(Unwrap(claims[1].metadata.generate_name) \o suffix)]
              IN  ApplyClaims(Apply(st, namespace, created, by),
                              namespace, Tail(claims), by)

\* The HashMap of the declared volumes of a service to the stored claims the
\* lookup by label finds for them, iterating in the given order; the map
\* the caller gave when the service declares no volume.
BoundVolumes(st, in, pass, order) ==
    IF Len(in.service.declared_volumes) = 0 THEN in.persistent_volume_map
    ELSE LET namespace == to_rfc1123_namespace_id(in.app_name)
             index(path) == CHOOSE i \in DOMAIN in.service.declared_volumes :
                                in.service.declared_volumes[i] = path
         IN  Some([entries |->
                      [path \in Range(in.service.declared_volumes) |->
                          st[CHOOSE k \in MatchingClaims(st, namespace,
                                                         pass.claims[index(path)]) :
                                TRUE].object],
                   iter |-> order])

\* The first step of a deploy: the namespace of the application is applied.
CreateNamespace(st, in) ==
    Apply(st, <<>>, namespace_payload(in.app_name, in.config),
          [app_name |-> in.app_name, service |-> None])

\* The second step of a deploy: the storage claims of the declared volumes
\* that do not exist yet are created, then every synthesized object of the
\* service is applied, the workload with the declared volumes bound to
\* their claims.
ApplyObjects(st, in, rt) ==
    LET first == SynthesisPass(in, rt)
        by == [app_name |-> in.app_name, service |-> Some(in.service)]
        namespace == to_rfc1123_namespace_id(in.app_name)
        claimed == ApplyClaims(st, namespace, first.claims, by)
        bound == [in EXCEPT !.persistent_volume_map =
                                BoundVolumes(claimed, in, first, rt.bound_order)]
        pass == SynthesisPass(bound, rt)
    IN  ApplyAll(claimed, namespace, DeployedObjects(in, pass), by)

\* deploy_services for one service of a deployment unit: the namespace is
\* applied, then the objects of the service.
DeployService(st, in, rt) == ApplyObjects(CreateNamespace(st, in), in, rt)

\* stop_services: the namespace of the application is deleted with all
\* that it holds.
StopServices(st, app_name) ==
    LET gone == {k \in DOMAIN st :
                    \/ k[2] = to_rfc1123_namespace_id(app_name)
                    \/ k[1] = "Namespace" /\ k[3] = to_rfc1123_namespace_id(app_name)}
    IN  [k \in DOMAIN st \ gone |-> st[k]]

\* ------------------------------------------------------------------ state
VARIABLES
    input,      \* the arguments of the synthesis functions
    graph,      \* the objects of the latest synthesis pass, None before it
    previous,   \* the objects of the pass before the latest, None before it
    store,      \* the objects the backend holds
    clock,      \* the wall clock of the backend
    last,       \* the latest deploy: its input, and the store before it
    in_flight   \* the calls of the backend in flight, each with its position

vars == << input, graph, previous, store, clock, last, in_flight >>

\* The application identifiers of the synthesis specification: a mixed-case
\* one and a lowercase one.
SynthAppNames == { <<"M","Y">>, <<"q">> }

\* Further application identifiers, synthesized with one fixed descriptor
\* per service name.
NamingAppNames ==
    { <<"m","y">>, <<"M","y","-","A","p","p">>, <<"a","-","B","1">>, <<"Z">> }

\* The container role, environment and pull-secret flag of the inputs: a
\* base case and each of the three changed alone.
SynthVariations ==
    { << "Instance", None, FALSE >>,
      << "ApplicationCompanion", None, FALSE >>,
      << "Instance", Some(<< EnvVar(<<"K">>, FALSE), EnvVar(<<"R">>, TRUE) >>), FALSE >>,
      << "Instance", None, TRUE >> }

TraefikMiddlewareRef(name) == [kind |-> "Ref", name |-> name, spec |-> "none"]

TraefikMiddlewareSpec(name) == [kind |-> "Spec", name |-> name, spec |-> "stripPrefix"]

\* The routes of the routing inputs: a reference beside an inline
\* middleware with a mixed-case name; two routes, an inline middleware whose
\* name is no application identifier and a reference; a route without
\* middlewares; two inline middlewares whose names differ in case only; one
\* inline middleware listed by two routes; one listed twice by one route.
RouteLists ==
    { << [rule |-> <<"/">>,
          middlewares |-> << TraefikMiddlewareRef(<<"R","-","x">>),
                             TraefikMiddlewareSpec(<<"M","Y","-","m","w">>) >>] >>,
      << [rule |-> <<"/","a">>,
          middlewares |-> << TraefikMiddlewareSpec(<<"A","/","b">>) >>],
         [rule |-> <<"/","b">>,
          middlewares |-> << TraefikMiddlewareRef(<<"U","p">>) >>] >>,
      << [rule |-> <<"/">>, middlewares |-> <<>>] >>,
      << [rule |-> <<"/">>,
          middlewares |-> << TraefikMiddlewareSpec(<<"A","b">>),
                             TraefikMiddlewareSpec(<<"a","b">>) >>] >>,
      << [rule |-> <<"/","a">>,
          middlewares |-> << TraefikMiddlewareSpec(<<"s","p">>) >>],
         [rule |-> <<"/","b">>,
          middlewares |-> << TraefikMiddlewareSpec(<<"s","p">>) >>] >>,
      << [rule |-> <<"/">>,
          middlewares |-> << TraefikMiddlewareSpec(<<"s","p">>),
                             TraefikMiddlewareSpec(<<"s","p">>) >>] >> }

\* The runtime configurations: Docker, and Kubernetes with no, one or two
\* namespace annotations.
Configs ==
    { [runtime |-> "Docker"],
      [runtime |-> "Kubernetes", namespace_annotations |-> EmptyMap],
      [runtime |-> "Kubernetes", namespace_annotations |-> ("p" :> <<"i","d">>)],
      [runtime |-> "Kubernetes",
       namespace_annotations |-> ("p" :> <<"i","d">>) @@ ("t" :> <<>>)] }

\* The declared volumes of the storage inputs: a path without a last
\* segment (empty, ending in a slash), a path without a slash, two paths
\* with the same last segment, two with different ones.
DeclaredVolumeLists ==
    { << <<>> >>,
      << <<"/","d","/">> >>,
      << <<"d">> >>,
      << <<"/","a","/","d">>, <<"/","b","/","d">> >>,
      << <<"/","a","/","d">>, <<"/","a","/","l">> >> }

\* Declared files and bindings of the volume inputs: a file directly under
\* the root; files under two directories whose names differ in a dot and a
\* separator only; a file under a directory named like the volume of a
\* binding; two bindings without storage-type label; two files of one
\* directory whose names differ in a dot and a dash only.
CollidingVolumes ==
    { << Some([p \in {PathOrder[9]} |-> FileContent(p)]), None >>,
      << Some([p \in {PathOrder[7], PathOrder[8]} |-> FileContent(p)]), None >>,
      << Some([p \in {PathOrder[3], PathOrder[4]} |-> FileContent(p)]), None >> }
    \cup { << Some([p \in {PathOrder[2]} |-> FileContent(p)]), Some(m) >> :
             m \in HashMaps(
                <<"/","d">> :> Claim(<<"c","1">>, Some(STORAGE_TYPE_LABEL :> <<"d">>))) }
    \cup { << None, Some(m) >> :
             m \in HashMaps(
                (<<"/","d">> :> Claim(<<"c","1">>, None))
                @@ (<<"/","p">> :> Claim(<<"c","2">>, None))) }

\* The inputs of the synthesis specification: the descriptors, the naming
\* inputs, the routing inputs, the inputs with a Kubernetes runtime, the
\* storage inputs and the volume inputs.
SynthInputs ==
    { [app_name |-> a,
       service |-> DeployableService(<<"d","b">>, v[1], st, v[2], files,
                                     IngressRouteWithDefaults(a, <<"d","b">>),
                                     << <<"/","d">> >>),
       container_config |-> [memory_limit |-> None],
       use_image_pull_secret |-> v[3],
       persistent_volume_map |-> pvm,
       config |-> [runtime |-> "Docker"]] :
        a \in SynthAppNames, v \in SynthVariations,
        st \in { RedeployNever, RedeployAlways, RedeployOnImageUpdate(<<"h","1">>) },
        files \in FileMaps, pvm \in PersistentVolumeMaps }
    \cup
    { [app_name |-> a,
       service |-> DeployableService(sn, "Instance", RedeployNever, None,
                                     Some([p \in {DescriptorPaths[2]} |-> FileContent(p)]),
                                     IngressRouteWithDefaults(a, sn),
                                     << <<"/","d">> >>),
       container_config |-> [memory_limit |-> None],
       use_image_pull_secret |-> TRUE,
       persistent_volume_map |-> None,
       config |-> [runtime |-> "Docker"]] :
        a \in NamingAppNames, sn \in ServiceNames }
    \cup
    { [app_name |-> <<"M","Y">>,
       service |-> DeployableService(<<"d","b">>, "Instance", RedeployNever, None, None,
                                     [entrypoints |-> <<>>, routes |-> routes,
                                      tls |-> None],
                                     <<>>),
       container_config |-> [memory_limit |-> None],
       use_image_pull_secret |-> FALSE,
       persistent_volume_map |-> None,
       config |-> [runtime |-> "Docker"]] :
        routes \in RouteLists }
    \cup
    { [app_name |-> a,
       service |-> DeployableService(<<"d","b">>, "Instance", RedeployNever, None, None,
                                     IngressRouteWithDefaults(a, <<"d","b">>), <<>>),
       container_config |-> [memory_limit |-> None],
       use_image_pull_secret |-> FALSE,
       persistent_volume_map |-> None,
       config |-> c] :
        a \in SynthAppNames, c \in Configs \ { [runtime |-> "Docker"] } }
    \cup
    { [app_name |-> a,
       service |-> DeployableService(<<"d","b">>, "Instance", RedeployNever, None, None,
                                     IngressRouteWithDefaults(a, <<"d","b">>), volumes),
       container_config |-> [memory_limit |-> None],
       use_image_pull_secret |-> FALSE,
       persistent_volume_map |-> None,
       config |-> [runtime |-> "Docker"]] :
        a \in SynthAppNames, volumes \in DeclaredVolumeLists }
    \cup
    { [app_name |-> <<"q">>,
       service |-> DeployableService(<<"d","b">>, "Instance", RedeployNever, None, c[1],
                                     IngressRouteWithDefaults(<<"q">>, <<"d","b">>),
                                     << <<"/","d">>, <<"/","p">> >>),
       container_config |-> [memory_limit |-> None],
       use_image_pull_secret |-> FALSE,
       persistent_volume_map |-> c[2],
       config |-> [runtime |-> "Docker"]] :
        c \in CollidingVolumes }

InitSynth ==
    /\ input \in SynthInputs
    /\ graph = None
    /\ previous = None
    /\ store = EmptyMap
    /\ clock = 0
    /\ last = None
    /\ in_flight = {}

\* The synthesis functions are applied to the input; a second application
\* to the same input keeps the result of the first for comparison.
Synthesize ==
    /\ previous = None
    /\ \E rt \in RuntimeChoices(input.service) :
          graph' = Some(SynthesisPass(input, rt))
    /\ previous' = graph
    /\ UNCHANGED << input, store, clock, last, in_flight >>

NextSynth == Synthesize

SpecSynth == InitSynth /\ [][NextSynth]_vars

\* The strategy and the declared files of the deploys of the backend
\* specification: per strategy one set of declared files.
DeployVariants ==
    { << RedeployNever, None >>,
      << RedeployAlways, Some([p \in {DescriptorPaths[2]} |-> FileContent(p)]) >>,
      << RedeployOnImageUpdate(<<"h","1">>),
         Some([p \in {DescriptorPaths[2], DescriptorPaths[3]} |-> FileContent(p)]) >> }

DeployInput(a, sn, v) ==
    [app_name |-> a,
     service |-> DeployableService(sn, "Instance", v[1], None, v[2],
                                   IngressRouteWithDefaults(a, sn), <<>>),
     container_config |-> [memory_limit |-> None],
     use_image_pull_secret |-> FALSE,
     persistent_volume_map |-> None,
     config |-> [runtime |-> "Docker"]]

\* The deploys: every variant of every service of two applications, and one
\* deploy under an identifier that differs from another in case only.
DeployInputs ==
    { DeployInput(a, sn, v) :
        a \in { <<"M","Y">>, <<"q">> }, sn \in ServiceNames, v \in DeployVariants }
    \cup { DeployInput(<<"m","y">>, <<"w">>, << RedeployNever, None >>) }

Init ==
    /\ input = None
    /\ graph = None
    /\ previous = None
    /\ store = EmptyMap
    /\ clock = 0
    /\ last = None
    /\ in_flight = {}

\* deploy_services: one service of an application is deployed at the next
\* reading of the clock.
Deploy ==
    /\ clock < MaxClock
    /\ \E in \in DeployInputs :
        \E rt \in {r \in RuntimeChoices(in.service) : r.now \in {0, clock + 1}} :
            /\ store' = DeployService(store, in, rt)
            /\ last' = Some([input |-> in, before |-> store])
    /\ clock' = clock + 1
    /\ UNCHANGED << input, graph, previous, in_flight >>

\* stop_services
Stop ==
    /\ \E a \in DeployAppNames :
          /\ \E k \in DOMAIN store : k[2] = to_rfc1123_namespace_id(a)
          /\ store' = StopServices(store, a)
    /\ last' = None
    /\ UNCHANGED << input, graph, previous, clock, in_flight >>

Next == Deploy \/ Stop

Spec == Init /\ [][Next]_vars

\* ------------------------------------------------------------------ helpers of the properties
\* A label selector matches a set of labels when the labels contain every
\* pair of the selector.
SelectorMatches(selector, labels) ==
    \A k \in DOMAIN selector : k \in DOMAIN labels /\ labels[k] = selector[k]

HasLabel(object, key, value) ==
    /\ IsSome(object.metadata.labels)
    /\ key \in DOMAIN Unwrap(object.metadata.labels)
    /\ Unwrap(object.metadata.labels)[key] = value

OptionList(o) == IF IsSome(o) THEN << Unwrap(o) >> ELSE <<>>

PodSpecOf(deployment) == deployment.spec.template.spec

PodTemplateMeta(deployment) == deployment.spec.template.metadata

\* The volumes of a workload that are backed by the file secret.
SecretVolumesOf(deployment) ==
    SelectSeq(UnwrapOr(PodSpecOf(deployment).volumes, <<>>),
              LAMBDA v : IsSome(v.secret))

\* Every name and namespace field the objects of a pass carry or reference.
NameFields(pass) ==
  LET volumes == SecretVolumesOf(pass.deployment)
      pull == UnwrapOr(PodSpecOf(pass.deployment).image_pull_secrets, <<>>)
      secret == OptionList(pass.secret)
  IN
    OptionList(pass.namespace.metadata.name)
    \o OptionList(pass.deployment.metadata.name)
    \o OptionList(pass.deployment.metadata.namespace)
    \o Flatten([i \in DOMAIN volumes |-> OptionList(Unwrap(volumes[i].secret).secret_name)])
    \o Flatten([i \in DOMAIN pull |-> OptionList(pull[i].name)])
    \o Flatten([i \in DOMAIN secret |->
                  OptionList(secret[i].metadata.name)
                  \o OptionList(secret[i].metadata.namespace)])
    \o OptionList(pass.image_pull_secret.metadata.name)
    \o OptionList(pass.image_pull_secret.metadata.namespace)
    \o OptionList(pass.ingress_route.metadata.name)
    \o OptionList(pass.ingress_route.metadata.namespace)
    \o Flatten([i \in DOMAIN pass.middlewares |->
                  OptionList(pass.middlewares[i].metadata.namespace)])
    \o Flatten([i \in DOMAIN pass.claims |->
                  OptionList(pass.claims[i].metadata.generate_name)])

\* The keys of the stored objects of one kind.
StoredKeys(kind) == {k \in DOMAIN store : k[1] = kind}

\* The stored objects of one kind that the deploys of one application
\* identifier and service name wrote.
StoredFor(kind, app_name, service_name) ==
    {k \in StoredKeys(kind) :
        /\ store[k].by.app_name = app_name
        /\ IsSome(store[k].by.service)
        /\ Unwrap(store[k].by.service).service_name = service_name}

\* ------------------------------------------------------------------ properties

\* C1: after any sequence of deploys, for every deployed service the store
\* holds exactly one workload, one network endpoint and one routing route
\* written for that application identifier and service name, and at most one
\* file secret, exactly one when the service declares files.
C1_RedeployReplaces ==
    \A k \in StoredKeys("Deployment") :
        LET app == store[k].by.app_name
            svc == Unwrap(store[k].by.service)
            N(kind) == Cardinality(StoredFor(kind, app, svc.service_name))
        IN  /\ N("Deployment") = 1
            /\ N("Service") = 1
            /\ N("IngressRoute") = 1
            /\ N("Secret") <= 1
            /\ IsSome(svc.files) => N("Secret") = 1

\* C1 witness: the latest deploy was for a service whose workload the same
\* application identifier had deployed before, with files declared.
C1_Witness ==
    /\ IsSome(last)
    /\ IsSome(Unwrap(last).input.service.files)
    /\ \E k \in StoredKeys("Deployment") :
          /\ k \in DOMAIN Unwrap(last).before
          /\ Unwrap(last).before[k].by.app_name = Unwrap(last).input.app_name
          /\ store[k].by.app_name = Unwrap(last).input.app_name
          /\ Unwrap(store[k].by.service).service_name
                = Unwrap(last).input.service.service_name

\* C2: every object of a synthesis pass has the application-name label with
\* the raw identifier among its metadata labels, and every object of a
\* service also the service-name and container-type labels.
C2_EveryObjectLabelled ==
    IsSome(graph) =>
        LET pass == Unwrap(graph)
            ofApp == << pass.namespace, pass.image_pull_secret >>
            ofService == << pass.deployment, pass.service, pass.ingress_route >>
                         \o OptionList(pass.secret) \o pass.claims
        IN  /\ \A i \in DOMAIN ofApp :
                  HasLabel(ofApp[i], APP_NAME_LABEL, input.app_name)
            /\ \A i \in DOMAIN ofService :
                  /\ HasLabel(ofService[i], APP_NAME_LABEL, input.app_name)
                  /\ HasLabel(ofService[i], SERVICE_NAME_LABEL,
                              input.service.service_name)
                  /\ HasLabel(ofService[i], CONTAINER_TYPE_LABEL,
                              ContainerTypeToString(input.service.container_type))

\* C3: every stored network endpoint is named by the bare service name, has
\* one port named by the service name, and its selector equals the pod
\* labels of the workload of its own service and matches the pods of no
\* other workload of the namespace.
C3_EndpointSelectsOwnPods ==
    \A ks \in StoredKeys("Service") :
        LET endpoint == store[ks].object
            svc == Unwrap(store[ks].by.service)
            ports == endpoint.spec.ports
            selector == Unwrap(endpoint.spec.selector)
        IN  /\ endpoint.metadata.name = Some(svc.service_name)
            /\ IsSome(ports) /\ Len(Unwrap(ports)) = 1
            /\ Unwrap(ports)[1].name = Some(svc.service_name)
            /\ \A kd \in StoredKeys("Deployment") :
                  kd[2] = ks[2] =>
                    LET pods == Unwrap(PodTemplateMeta(store[kd].object).labels)
                    IN  IF store[kd].by = store[ks].by
                        THEN selector = pods
                        ELSE ~SelectorMatches(selector, pods)

\* C3 witness: an endpoint is stored beside the workload of its own service
\* and the workload of another service of the same namespace.
C3_Witness ==
    \E ks \in StoredKeys("Service") :
        /\ \E kd \in StoredKeys("Deployment") :
              kd[2] = ks[2] /\ store[kd].by = store[ks].by
        /\ \E kd \in StoredKeys("Deployment") :
              kd[2] = ks[2] /\ store[kd].by # store[ks].by

\* C4: no name or namespace field of a synthesis pass holds an uppercase
\* character, and none holds the raw identifier of a mixed-case application.
C4_NamesNormalized ==
    IsSome(graph) =>
        LET names == NameFields(Unwrap(graph))
        IN  \A i \in DOMAIN names :
                /\ ~HasUpper(names[i])
                /\ HasUpper(input.app_name) => ~Contains(names[i], input.app_name)

\* C5: the name of the synthesized namespace is a fixed point of the
\* normalization and holds no uppercase character.
C5_NormalizationIdempotent ==
    IsSome(graph) =>
        LET normalized == Unwrap(Unwrap(graph).namespace.metadata.name)
        IN  /\ to_rfc1123_namespace_id(normalized) = normalized
            /\ ~HasUpper(normalized)
            /\ Len(normalized) = Len(input.app_name)

\* C5 witness: a namespace was synthesized for an identifier with an
\* uppercase letter.
C5_Witness == IsSome(graph) /\ HasUpper(input.app_name)

\* C6: two runs of deployment_payload on one input whose strategy is not
\* always-force return the same payload.
C6_ResynthesisIdentical ==
    (IsSome(previous) /\ input.service.strategy.kind # "RedeployAlways") =>
        Unwrap(previous).deployment = Unwrap(graph).deployment

\* C7: in every stored workload the selector, the labels of the workload and
\* the labels of the pod template are the set {application-name: raw
\* identifier, service-name, container-type}, and the selector of a workload
\* never matches the pods of another stored workload.
C7_SelectorEqualsLabels ==
    \A k \in StoredKeys("Deployment") :
        LET workload == store[k].object
            svc == Unwrap(store[k].by.service)
            expected ==
                [l \in {APP_NAME_LABEL, SERVICE_NAME_LABEL, CONTAINER_TYPE_LABEL} |->
                    IF l = APP_NAME_LABEL THEN store[k].by.app_name
                    ELSE IF l = SERVICE_NAME_LABEL THEN svc.service_name
                    ELSE ContainerTypeToString(svc.container_type)]
        IN  /\ workload.spec.selector.match_labels = Some(expected)
            /\ workload.metadata.labels = Some(expected)
            /\ PodTemplateMeta(workload).labels = Some(expected)
            /\ \A j \in StoredKeys("Deployment") \ {k} :
                  ~SelectorMatches(Unwrap(workload.spec.selector.match_labels),
                                   Unwrap(PodTemplateMeta(store[j].object).labels))

\* C7 witness: the workloads of two services of one application are stored,
\* and so are the workloads of two applications.
C7_Witness ==
    /\ \E k, j \in StoredKeys("Deployment") :
          /\ store[k].by.app_name = store[j].by.app_name
          /\ store[k].by.service # store[j].by.service
    /\ \E k, j \in StoredKeys("Deployment") :
          store[k].by.app_name # store[j].by.app_name

\* The declared files of the input that have the given parent directory.
FilesUnder(parent) ==
    {p \in DOMAIN Unwrap(input.service.files) : PathParent(p) = Some(parent)}

\* C8: the file-backed volumes and the file mounts of a synthesized workload
\* are one per distinct parent directory of the declared files: the mount
\* and the volume of a parent have the name derived from the parent, the
\* mount is at the parent, and the volume has one item per file of the
\* parent (key: the file name with dots as dashes, path: the file name).
C8_OneVolumePerParent ==
    (IsSome(graph) /\ IsSome(input.service.files)) =>
        LET workload == Unwrap(graph).deployment
            parents == {Unwrap(PathParent(p)) :
                          p \in {q \in DOMAIN Unwrap(input.service.files) :
                                    IsSome(PathParent(q))}}
            volumes == SecretVolumesOf(workload)
            bound == IF IsSome(input.persistent_volume_map)
                     THEN Len(Unwrap(input.persistent_volume_map).iter) ELSE 0
            all_mounts == Unwrap(PodSpecOf(workload).containers[1].volume_mounts)
            mounts == SubSeq(all_mounts, 1, Len(all_mounts) - bound)
            IsVolumeOf(v, parent) ==
                /\ v.name = secret_name_from_path(parent)
                /\ Len(Unwrap(Unwrap(v.secret).items)) = Cardinality(FilesUnder(parent))
                /\ Range(Unwrap(Unwrap(v.secret).items))
                      = {[key |-> replace_dot_dash(p.comps[Len(p.comps)]),
                          path |-> p.comps[Len(p.comps)]] : p \in FilesUnder(parent)}
            IsMountOf(m, parent) ==
                /\ m.name = secret_name_from_path(parent)
                /\ m.mount_path = PathToString(parent)
        IN  /\ Len(volumes) = Cardinality(parents)
            /\ Len(mounts) = Cardinality(parents)
            /\ \E of \in Orders(parents) :
                  \A i \in DOMAIN volumes : IsVolumeOf(volumes[i], of[i])
            /\ \E of \in Orders(parents) :
                  \A i \in DOMAIN mounts : IsMountOf(mounts[i], of[i])

\* C8 witness: a workload was synthesized for files of which two share a
\* parent directory.
C8_Witness ==
    /\ IsSome(graph)
    /\ IsSome(input.service.files)
    /\ \E p, q \in DOMAIN Unwrap(input.service.files) :
          p # q /\ IsSome(PathParent(p)) /\ PathParent(p) = PathParent(q)

\* C9: the annotations of the pod template are {imageHash: h} for
\* pinned-to-image-hash(h), empty for never-force and {date: the reading of
\* the clock} for always-force, and the workload object's own annotations
\* hold neither of the two keys.
C9_StrategyAnnotations ==
    IsSome(graph) =>
        LET workload == Unwrap(graph).deployment
            strategy == input.service.strategy
            template == Unwrap(PodTemplateMeta(workload).annotations)
        IN  /\ IsSome(PodTemplateMeta(workload).annotations)
            /\ strategy.kind = "RedeployOnImageUpdate" =>
                  /\ DOMAIN template = {"imageHash"}
                  /\ template["imageHash"] = strategy.image_id
            /\ strategy.kind = "RedeployNever" => DOMAIN template = {}
            /\ strategy.kind = "RedeployAlways" =>
                  /\ DOMAIN template = {"date"}
                  /\ Len(Unwrap(graph).clock_reads) = 1
                  /\ template["date"] = to_rfc3339(Unwrap(graph).clock_reads[1])
            /\ DOMAIN Unwrap(workload.metadata.annotations)
                  \cap {"imageHash", "date"} = {}

\* C9 witness: workloads were synthesized under the always-force strategy at
\* two different readings of the clock.
C9_Witness ==
    /\ IsSome(previous)
    /\ input.service.strategy.kind = "RedeployAlways"
    /\ Unwrap(previous).clock_reads # Unwrap(graph).clock_reads

\* A workload without the annotations of its pod template.
WithoutTemplateAnnotations(workload) ==
    [workload EXCEPT !.spec.template.metadata.annotations = None]

\* C10: two syntheses of one always-force descriptor at different readings
\* of the clock differ in the date annotation of the pod template and in
\* nothing else.
C10_AlwaysForceDiffersInDateOnly ==
    (/\ IsSome(previous)
     /\ input.service.strategy.kind = "RedeployAlways"
     /\ Unwrap(previous).clock_reads # Unwrap(graph).clock_reads) =>
        LET before == Unwrap(previous).deployment
            after == Unwrap(graph).deployment
        IN  /\ Unwrap(PodTemplateMeta(before).annotations)["date"]
                  # Unwrap(PodTemplateMeta(after).annotations)["date"]
            /\ WithoutTemplateAnnotations(before) = WithoutTemplateAnnotations(after)

\* ------------------------------------------------------------------ redeploys
\* The descriptors of the redeploy specification: every strategy, no file,
\* one file or files in two parent directories, no or one declared volume,
\* two declared volumes with the same or with different last segments.
RedeployInputs ==
    { [app_name |-> <<"M","Y">>,
       service |-> DeployableService(<<"d","b">>, "Instance", st, None, files,
                                     IngressRouteWithDefaults(<<"M","Y">>, <<"d","b">>),
                                     dv),
       container_config |-> [memory_limit |-> None],
       use_image_pull_secret |-> FALSE,
       persistent_volume_map |-> None,
       config |-> [runtime |-> "Docker"]] :
        st \in { RedeployNever, RedeployAlways, RedeployOnImageUpdate(<<"h","1">>) },
        files \in { None,
                    Some([p \in {DescriptorPaths[2]} |-> FileContent(p)]),
                    Some([p \in {DescriptorPaths[2], DescriptorPaths[4]} |-> FileContent(p)]) },
        dv \in { <<>>, << <<"/","d">> >>,
                 << <<"/","a","/","d">>, <<"/","b","/","d">> >>,
                 << <<"/","a","/","d">>, <<"/","a","/","l">> >> } }

InitRedeploy ==
    /\ input \in RedeployInputs
    /\ graph = None
    /\ previous = None
    /\ store = EmptyMap
    /\ clock = 0
    /\ last = None
    /\ in_flight = {}

\* deploy_services, called again and again with the same descriptor.
Redeploy ==
    /\ clock < MaxClock
    /\ \E rt \in {r \in RuntimeChoices(input.service) : r.now \in {0, clock + 1}} :
          store' = DeployService(store, input, rt)
    /\ last' = Some([input |-> input, before |-> store])
    /\ clock' = clock + 1
    /\ UNCHANGED << input, graph, previous, in_flight >>

NextRedeploy == Redeploy

SpecRedeploy == InitRedeploy /\ [][NextRedeploy]_vars

\* C11: a deploy of a descriptor that was deployed before with the same
\* inputs leaves the store as it was when the strategy is never-force or
\* pinned to an image hash, and changes it when the strategy is always-force.
C11_RedeployIsNoOp ==
    (IsSome(last) /\ Unwrap(last).before # EmptyMap) =>
        IF input.service.strategy.kind = "RedeployAlways"
        THEN store # Unwrap(last).before
        ELSE store = Unwrap(last).before

\* The middleware entries of all routes of the input, in order.
InputMiddlewares ==
    LET routes == input.service.ingress_route.routes
    IN  Flatten([i \in DOMAIN routes |-> routes[i].middlewares])

\* C12: every middleware entry of every route is referenced by the route
\* under its resolved name (a reference under its own name, an inline
\* middleware under the lowercase form of its name when the name is an
\* application identifier); the emitted middleware objects are one per
\* inline entry, in order, each under the name its route references it by
\* and in the namespace of the route.
C12_MiddlewareResolution ==
    IsSome(graph) =>
        LET routes == input.service.ingress_route.routes
            rules == Unwrap(Unwrap(graph).ingress_route.spec.routes)
            objects == Unwrap(graph).middlewares
            referenced ==
                Flatten([i \in DOMAIN rules |-> Unwrap(rules[i].middlewares)])
            inline == {i \in DOMAIN InputMiddlewares : InputMiddlewares[i].kind = "Spec"}
            rank(i) == Cardinality({j \in inline : j <= i})
        IN  /\ Len(rules) = Len(routes)
            /\ \A i \in DOMAIN routes :
                  Len(Unwrap(rules[i].middlewares)) = Len(routes[i].middlewares)
            /\ \A i \in DOMAIN InputMiddlewares :
                  LET m == InputMiddlewares[i]
                  IN  referenced[i].name =
                        IF m.kind = "Spec" /\ IsSome(AppNameFromStr(m.name))
                        THEN to_lowercase(m.name)
                        ELSE m.name
            /\ Len(objects) = Cardinality(inline)
            /\ \A i \in inline :
                  /\ objects[rank(i)].metadata.name = Some(referenced[i].name)
                  /\ objects[rank(i)].metadata.namespace
                        = Unwrap(graph).ingress_route.metadata.namespace
                  /\ objects[rank(i)].metadata.namespace
                        = Some(to_lowercase(input.app_name))

\* C12 witness: routes were synthesized that hold a reference and an inline
\* middleware whose name is an application identifier with an uppercase
\* letter; the route references the first under its own name and the second
\* under its lowercase name, and a middleware object of that lowercase name
\* was emitted.
C12_Witness ==
    /\ IsSome(graph)
    /\ \E i, j \in DOMAIN InputMiddlewares :
          /\ InputMiddlewares[i].kind = "Ref"
          /\ InputMiddlewares[j].kind = "Spec"
          /\ IsSome(AppNameFromStr(InputMiddlewares[j].name))
          /\ HasUpper(InputMiddlewares[j].name)
          /\ LET rules == Unwrap(Unwrap(graph).ingress_route.spec.routes)
                 referenced ==
                     Flatten([r \in DOMAIN rules |-> Unwrap(rules[r].middlewares)])
             IN  /\ referenced[i].name = InputMiddlewares[i].name
                 /\ referenced[j].name = to_lowercase(InputMiddlewares[j].name)
          /\ \E n \in DOMAIN Unwrap(graph).middlewares :
                Unwrap(graph).middlewares[n].metadata.name
                    = Some(to_lowercase(InputMiddlewares[j].name))

\* ------------------------------------------------------------------ configurations of an application
\* Result<T, Error>
Ok(value) == [ok |-> TRUE, value |-> Some(value), error |-> None]
Err(error) == [ok |-> FALSE, value |-> None, error |-> Some(error)]

\* MultiMap::get_vec
get_vec(multimap, key) == IF key \in DOMAIN multimap THEN Some(multimap[key]) ELSE None

\* A faulty variant of get_configs_of_app: only the services of the
\* instance role are kept.
get_configs_of_app_instances_only(services, app_name) ==
    IF ~services.ok THEN services
    ELSE IF IsSome(get_vec(Unwrap(services.value), app_name))
         THEN Ok(LET kept == SelectSeq(Unwrap(get_vec(Unwrap(services.value), app_name)),
                                       LAMBDA service :
                                          service.container_type = "Instance")
                 IN  [i \in DOMAIN kept |-> kept[i].config])
         ELSE Ok(<<>>)

\* Infrastructure::get_configs_of_app; services is what get_services returned
get_configs_of_app(services, app_name) ==
    IF ~services.ok THEN services
    ELSE IF IsSome(get_vec(Unwrap(services.value), app_name))
         THEN Ok(LET kept == SelectSeq(Unwrap(get_vec(Unwrap(services.value), app_name)),
                                       LAMBDA service :
                                          \/ service.container_type = "Instance"
                                          \/ service.container_type = "Replica")
                 IN  [i \in DOMAIN kept |-> kept[i].config])
         ELSE Ok(<<>>)

ContainerTypes == {"Instance", "Replica", "ApplicationCompanion", "ServiceCompanion"}

\* The running services of one application: up to MaxServices services of
\* any role; the configuration of the i-th is told apart by i.
ServiceLists ==
    UNION { { [i \in 1..n |-> [config |-> << Digit[i + 1] >>, container_type |-> t[i]]] :
                t \in [1..n -> ContainerTypes] } : n \in 1..MaxServices }

\* What get_services returns: a failure, or the services of application
\* "q" alone, or those beside the services of application "MY".
ServicesResults ==
    { Err("failed") }
    \cup { Ok(<<"q">> :> << [config |-> <<"x">>, container_type |-> "Instance"] >>) }
    \cup { Ok(<<"M","Y">> :> l) : l \in ServiceLists }
    \cup { Ok((<<"M","Y">> :> l)
              @@ (<<"q">> :> << [config |-> <<"x">>, container_type |-> "Instance"] >>)) :
            l \in ServiceLists }

InitConfigs ==
    /\ input \in { [services |-> r, app_name |-> <<"M","Y">>] : r \in ServicesResults }
    /\ graph = None
    /\ previous = None
    /\ store = EmptyMap
    /\ clock = 0
    /\ last = None
    /\ in_flight = {}

\* get_configs_of_app is called once.
GetConfigs ==
    /\ graph = None
    /\ graph' = Some(get_configs_of_app(input.services, input.app_name))
    /\ UNCHANGED << input, previous, store, clock, last, in_flight >>

NextConfigs == GetConfigs

SpecConfigs == InitConfigs /\ [][NextConfigs]_vars

\* C13: a failure of get_services is returned as it is; otherwise the result
\* holds the configurations of the services of the application whose role
\* is instance or replica, all of them, once each and in their order, and
\* is empty for an application without services.
C13_ConfigsOfInstancesAndReplicas ==
    IsSome(graph) =>
        LET result == Unwrap(graph)
            running == IF input.services.ok
                          /\ input.app_name \in DOMAIN Unwrap(input.services.value)
                       THEN Unwrap(input.services.value)[input.app_name]
                       ELSE <<>>
            visible == {i \in DOMAIN running :
                           running[i].container_type \in {"Instance", "Replica"}}
            rank(i) == Cardinality({j \in visible : j <= i})
        IN  IF ~input.services.ok
            THEN result = input.services
            ELSE /\ result.ok
                 /\ Len(Unwrap(result.value)) = Cardinality(visible)
                 /\ \A i \in visible : Unwrap(result.value)[rank(i)] = running[i].config

\* C13 witness: the configurations were taken from a list in which a
\* companion stands between an instance and a replica, beside the services
\* of another application; the result holds the configuration of the
\* instance before that of the replica and not that of the companion.
C13_Witness ==
    /\ IsSome(graph)
    /\ input.services.ok
    /\ input.app_name \in DOMAIN Unwrap(input.services.value)
    /\ DOMAIN Unwrap(input.services.value) # {input.app_name}
    /\ Unwrap(graph).ok
    /\ LET running == Unwrap(input.services.value)[input.app_name]
           result == Unwrap(Unwrap(graph).value)
       IN  \E i, j, k \in DOMAIN running :
              /\ i < j /\ j < k
              /\ running[i].container_type = "Instance"
              /\ running[j].container_type \in {"ApplicationCompanion", "ServiceCompanion"}
              /\ running[k].container_type = "Replica"
              /\ \E a, b \in DOMAIN result :
                    /\ a < b
                    /\ result[a] = running[i].config
                    /\ result[b] = running[k].config
              /\ \A a \in DOMAIN result : result[a] # running[j].config

\* ------------------------------------------------------------------ reconstruction of routes
\* A panic (a failed unwrap): the call does not return.
Panic == [ok |-> FALSE, value |-> None, error |-> None]

\* TraefikRouterRule::from_str: the rule of a match text that starts with a
\* path, a failure for any other text.
TraefikRouterRuleFromStr(text) ==
    IF Len(text) > 0 /\ text[1] = "/" THEN Ok(text) ELSE Err("unparsable rule")

\* TraefikIngressRoute::with_existing_routing_rules
with_existing_routing_rules(entrypoints, rule, middlewares, cert_resolver) ==
    [entrypoints |-> entrypoints,
     routes |-> << [rule |-> rule,
                    middlewares |-> [i \in DOMAIN middlewares |->
                                        TraefikMiddlewareRef(middlewares[i])]] >>,
     tls |-> cert_resolver]

\* TraefikTls::default()
TraefikTlsDefault == [cert_resolver |-> None]

\* TryFrom<IngressRoute> for TraefikIngressRoute
try_from(value) ==
    IF ~IsSome(value.spec.routes) THEN Panic
    ELSE IF Len(Unwrap(value.spec.routes)) = 0 THEN Panic
    ELSE LET k8s_route == Unwrap(value.spec.routes)[1]
             rule == TraefikRouterRuleFromStr(k8s_route.match)
             middlewares == UnwrapOr(k8s_route.middlewares, <<>>)
         IN  IF ~rule.ok THEN Panic
             ELSE Ok(with_existing_routing_rules(
                        UnwrapOr(value.spec.entrypoints, <<>>),
                        Unwrap(rule.value),
                        [i \in DOMAIN middlewares |-> middlewares[i].name],
                        UnwrapOr(value.spec.tls, TraefikTlsDefault).cert_resolver))

\* The rules a stored routing route may hold: a match text that can or
\* cannot be parsed, with no, an empty or a one-entry middleware list.
StoredRules ==
    { [kind |-> "Rule", match |-> m, middlewares |-> mw,
       services |-> << [kind |-> Some("Service"), name |-> <<"d","b">>,
                        port |-> Some(80)] >>] :
        m \in { <<"/","a">>, <<"?">> },
        mw \in { None, Some(<<>>), Some(<< [name |-> <<"m","w">>] >>) } }

\* The stored routing routes: routes absent, empty, one rule or two rules;
\* entry points and TLS settings absent or present.
StoredIngressRoutes ==
    { [kind |-> "IngressRoute",
       metadata |-> [ObjectMetaDefault EXCEPT !.name = Some(<<"r">>)],
       spec |-> [entrypoints |-> ep, routes |-> routes, tls |-> tls]] :
        ep \in { None, Some(<< <<"w","e","b">> >>) },
        routes \in { None, Some(<<>>) }
                   \cup { Some(<< r >>) : r \in StoredRules }
                   \cup { Some(<< r1, r2 >>) : r1 \in StoredRules, r2 \in StoredRules },
        tls \in { None, Some([cert_resolver |-> None]),
                  Some([cert_resolver |-> Some(<<"l","e">>)]) } }

InitRoute ==
    /\ input \in StoredIngressRoutes
    /\ graph = None
    /\ previous = None
    /\ store = EmptyMap
    /\ clock = 0
    /\ last = None
    /\ in_flight = {}

\* TraefikIngressRoute::try_from is called on the stored route.
Reconstruct ==
    /\ graph = None
    /\ graph' = Some(try_from(input))
    /\ UNCHANGED << input, previous, store, clock, last, in_flight >>

NextRoute == Reconstruct

SpecRoute == InitRoute /\ [][NextRoute]_vars

\* C14: the reconstruction of a stored route that declares no routes (absent
\* or empty) or whose match rule cannot be parsed returns an error; it does
\* not panic.
C14_ReconstructionFailsRecoverably ==
    (/\ IsSome(graph)
     /\ \/ ~IsSome(input.spec.routes)
        \/ Len(Unwrap(input.spec.routes)) = 0
        \/ ~TraefikRouterRuleFromStr(Unwrap(input.spec.routes)[1].match).ok) =>
        /\ Unwrap(graph) # Panic
        /\ ~Unwrap(graph).ok
        /\ IsSome(Unwrap(graph).error)

\* C15: the synthesized namespace is named by the lowercase form of the
\* application identifier and labelled with the identifier as given; its
\* annotations are the namespace annotations of a Kubernetes runtime
\* configuration when there are any, and absent otherwise.
C15_NamespacePayload ==
    IsSome(graph) =>
        LET namespace == Unwrap(graph).namespace
            supplied == IF input.config.runtime = "Kubernetes"
                        THEN DOMAIN input.config.namespace_annotations ELSE {}
        IN  /\ namespace.metadata.name = Some(to_lowercase(input.app_name))
            /\ IsSome(namespace.metadata.labels)
            /\ DOMAIN Unwrap(namespace.metadata.labels) = {APP_NAME_LABEL}
            /\ Unwrap(namespace.metadata.labels)[APP_NAME_LABEL] = input.app_name
            /\ IF supplied = {}
               THEN namespace.metadata.annotations = None
               ELSE /\ IsSome(namespace.metadata.annotations)
                    /\ DOMAIN Unwrap(namespace.metadata.annotations) = supplied
                    /\ \A k \in supplied :
                          Unwrap(namespace.metadata.annotations)[k]
                              = input.config.namespace_annotations[k]

\* C15 witness: namespaces were synthesized for a mixed-case identifier
\* under a Kubernetes runtime without namespace annotations.
C15_Witness ==
    /\ IsSome(graph)
    /\ HasUpper(input.app_name)
    /\ input.config.runtime = "Kubernetes"
    /\ DOMAIN input.config.namespace_annotations = {}

\* ------------------------------------------------------------------ concurrent calls
\* A faulty variant of AppIsFree: a call never waits for another.
AppIsFreeAlways(calls, app_name) == TRUE

\* The mutual exclusion of the backend: a deploy or stop of an application
\* starts only when no deploy or stop of the same application is in flight.
AppIsFree(calls, app_name) ==
    \A call \in calls :
        to_rfc1123_namespace_id(call.app_name) # to_rfc1123_namespace_id(app_name)

\* The descriptor the concurrent deploys of an application deploy.
ConcurrentInput(a) == DeployInput(a, <<"w">>, << RedeployNever, None >>)

InitConcurrent ==
    /\ input = None
    /\ graph = None
    /\ previous = None
    /\ store = EmptyMap
    /\ clock = 0
    /\ last = None
    /\ in_flight = {}

\* deploy_services or stop_services is called: the call is in flight from
\* now on; at most MaxClock calls are made.
Begin ==
    /\ clock < MaxClock
    /\ \E a \in {<<"M","Y">>, <<"q">>}, kind \in {"deploy", "stop"} :
          /\ AppIsFree(in_flight, a)
          /\ in_flight' = in_flight \cup
                { [id |-> clock + 1, kind |-> kind, app_name |-> a,
                   pc |-> IF kind = "deploy" THEN "namespace" ELSE "delete"] }
    /\ clock' = clock + 1
    /\ UNCHANGED << input, graph, previous, store, last >>

\* A deploy in flight creates the namespace.
DeployNamespace ==
    /\ \E call \in in_flight :
          /\ call.pc = "namespace"
          /\ store' = CreateNamespace(store, ConcurrentInput(call.app_name))
          /\ in_flight' = (in_flight \ {call}) \cup {[call EXCEPT !.pc = "objects"]}
    /\ UNCHANGED << input, graph, previous, clock, last >>

\* A deploy in flight applies its objects and returns.
DeployObjects ==
    /\ \E call \in in_flight :
          /\ call.pc = "objects"
          /\ \E rt \in RuntimeChoices(ConcurrentInput(call.app_name).service) :
                store' = ApplyObjects(store, ConcurrentInput(call.app_name), rt)
          /\ in_flight' = in_flight \ {call}
    /\ UNCHANGED << input, graph, previous, clock, last >>

\* A stop in flight deletes the namespace and returns.
StopDelete ==
    /\ \E call \in in_flight :
          /\ call.pc = "delete"
          /\ store' = StopServices(store, call.app_name)
          /\ in_flight' = in_flight \ {call}
    /\ UNCHANGED << input, graph, previous, clock, last >>

NextConcurrent == Begin \/ DeployNamespace \/ DeployObjects \/ StopDelete

SpecConcurrent == InitConcurrent /\ [][NextConcurrent]_vars

\* C16: a deploy that has created its namespace and has not yet applied its
\* objects still finds the namespace: no stop of the same application has
\* deleted it in between, and every object of the store lies in a stored
\* namespace.
C16_DeployAndStopSerialized ==
    /\ \A call \in in_flight :
          call.pc = "objects" =>
              << "Namespace", <<>>, to_rfc1123_namespace_id(call.app_name) >>
                  \in DOMAIN store
    /\ \A k \in DOMAIN store :
          k[1] # "Namespace" => << "Namespace", <<>>, k[2] >> \in DOMAIN store

\* C16 witness: a stop of one application and a deploy of another are in
\* flight together, the deploy between its two steps, while the first
\* application has objects deployed.
C16_Witness ==
    \E deploy, stop \in in_flight :
        /\ deploy.kind = "deploy" /\ deploy.pc = "objects"
        /\ stop.kind = "stop"
        /\ stop.app_name # deploy.app_name
        /\ \E k \in DOMAIN store :
              k[1] = "Deployment" /\ k[2] = to_rfc1123_namespace_id(stop.app_name)

\* ------------------------------------------------------------------ C17
\* C17: the pod spec of the workload carries an image-pull credentials
\* reference if and only if the pull-secret flag is set; when it does, it is
\* one reference whose name is the name of the secret that
\* image_pull_secret_payload emits for the same application identifier.  That
\* secret is named {normalized-app}-image-pull-secret, lies in the normalized
\* namespace, is immutable and has the single data key .dockerconfigjson.
C17_ImagePullReference ==
    IsSome(graph) =>
        LET pass == Unwrap(graph)
            refs == PodSpecOf(pass.deployment).image_pull_secrets
            pull_secret == pass.image_pull_secret
            normalized == to_lowercase(AppNameToString(input.app_name))
        IN  /\ IsSome(refs) <=> input.use_image_pull_secret
            /\ IsSome(refs) =>
                  /\ Len(Unwrap(refs)) = 1
                  /\ Unwrap(refs)[1].name = pull_secret.metadata.name
            /\ pull_secret.metadata.name = Some(normalized \o TxtImagePullSecret)
            /\ pull_secret.metadata.namespace = Some(normalized)
            /\ pull_secret.immutable = Some(TRUE)
            /\ IsSome(pull_secret.data)
            /\ DOMAIN Unwrap(pull_secret.data) = {".dockerconfigjson"}

\* C17 witness: a workload synthesized with the pull-secret flag set for an
\* application identifier that normalization changes.
C17_Witness ==
    /\ IsSome(graph)
    /\ input.use_image_pull_secret
    /\ HasUpper(AppNameToString(input.app_name))
    /\ IsSome(PodSpecOf(Unwrap(graph).deployment).image_pull_secrets)

\* ------------------------------------------------------------------ C18
\* The volumes of a workload that reference a storage claim.
ClaimVolumesOf(deployment) ==
    SelectSeq(UnwrapOr(PodSpecOf(deployment).volumes, <<>>),
              LAMBDA v : IsSome(v.persistent_volume_claim))

\* The mounts of a workload's container that follow the mounts of the
\* file-backed volumes, one of which exists per parent directory.
ClaimMountsOf(deployment, service) ==
    LET mounts == UnwrapOr(PodSpecOf(deployment).containers[1].volume_mounts, <<>>)
        parents == IF IsSome(service.files) THEN ParentPaths(Unwrap(service.files))
                   ELSE {}
    IN  SubSeq(mounts, Cardinality(parents) + 1, Len(mounts))

\* The name of the volume and of the mount of a binding.
BoundVolumeName(claim) ==
    (IF /\ IsSome(claim.metadata.labels)
        /\ STORAGE_TYPE_LABEL \in DOMAIN Unwrap(claim.metadata.labels)
     THEN Unwrap(claim.metadata.labels)[STORAGE_TYPE_LABEL]
     ELSE TxtDefault) \o TxtVolume

\* C18: the workload has one volume and one mount for each declared mount
\* path of the descriptor that the binding map holds, and for no other path:
\* the mount is at the declared path, the volume references the claim of the
\* binding, both carry the name {storage-type label, or default}-volume, and
\* this is so also when the descriptor declares no files.
C18_BoundVolumesOfDeclaredPaths ==
    IsSome(graph) =>
        LET deployment == Unwrap(graph).deployment
            entries == IF IsSome(input.persistent_volume_map)
                       THEN Unwrap(input.persistent_volume_map).entries
                       ELSE EmptyMap
            bound == Range(input.service.declared_volumes) \cap DOMAIN entries
            mounts == ClaimMountsOf(deployment, input.service)
            volumes == ClaimVolumesOf(deployment)
        IN  /\ Len(mounts) = Cardinality(bound)
            /\ Len(volumes) = Cardinality(bound)
            /\ \A p \in bound :
                  /\ \E i \in DOMAIN mounts :
                        /\ mounts[i].mount_path = p
                        /\ mounts[i].name = BoundVolumeName(entries[p])
                  /\ \E i \in DOMAIN volumes :
                        /\ Unwrap(volumes[i].persistent_volume_claim).claim_name
                              = Unwrap(entries[p].metadata.name)
                        /\ volumes[i].name = BoundVolumeName(entries[p])

\* ------------------------------------------------------------------ scaling
\* Largest replica count of a scale operation.
MaxReplicas == 2

\* A field of a patch replaces the stored one when the patch carries it.
MergeOption(stored, patch) == IF IsSome(patch) THEN patch ELSE stored

\* Two maps are merged key by key.
MergeMap(stored, patch) ==
    IF IsSome(patch) /\ IsSome(stored) THEN Some(Unwrap(patch) @@ Unwrap(stored))
    ELSE MergeOption(stored, patch)

MergeMeta(stored, patch) ==
    [name |-> MergeOption(stored.name, patch.name),
     namespace |-> MergeOption(stored.namespace, patch.namespace),
     generate_name |-> MergeOption(stored.generate_name, patch.generate_name),
     labels |-> MergeMap(stored.labels, patch.labels),
     annotations |-> MergeMap(stored.annotations, patch.annotations)]

\* The stored workload after a scale payload was applied to it: the fields
\* the payload carries are merged into the stored object.
MergeDeployment(stored, patch) ==
    [kind |-> stored.kind,
     metadata |-> MergeMeta(stored.metadata, patch.metadata),
     spec |->
        [replicas |-> MergeOption(stored.spec.replicas, patch.spec.replicas),
         selector |->
            [match_labels |-> MergeMap(stored.spec.selector.match_labels,
                                       patch.spec.selector.match_labels)],
         template |->
            [metadata |-> IF IsSome(patch.spec.template.metadata)
                          THEN MergeMeta(stored.spec.template.metadata,
                                         Unwrap(patch.spec.template.metadata))
                          ELSE stored.spec.template.metadata,
             spec |-> IF IsSome(patch.spec.template.spec)
                      THEN Unwrap(patch.spec.template.spec)
                      ELSE stored.spec.template.spec]]]

\* The scale payload is applied to the workload stored under its name in its
\* namespace; without such a workload nothing is stored.
ApplyScale(st, patch) ==
    LET key == StoreKey(Unwrap(patch.metadata.namespace), patch)
    IN  IF key \in DOMAIN st
        THEN [st EXCEPT ![key].object = MergeDeployment(st[key].object, patch)]
        ELSE st

\* The inputs of the scaling specification: two applications, the container
\* roles, environments and pull-secret flags, with and without files and
\* bound volumes, under two strategies.
ScaleInputs ==
    { [app_name |-> a,
       service |-> DeployableService(<<"d","b">>, v[1], st, v[2], files,
                                     IngressRouteWithDefaults(a, <<"d","b">>),
                                     << <<"/","d">> >>),
       container_config |-> [memory_limit |-> None],
       use_image_pull_secret |-> v[3],
       persistent_volume_map |-> pvm,
       config |-> [runtime |-> "Docker"]] :
        a \in SynthAppNames, v \in SynthVariations,
        st \in { RedeployNever, RedeployOnImageUpdate(<<"h","1">>) },
        files \in { None, Some([p \in {DescriptorPaths[2], DescriptorPaths[3]} |-> FileContent(p)]) },
        pvm \in { None } \cup { Some(m) : m \in HashMaps(
            <<"/","d">> :> Claim(<<"c","1">>, Some(STORAGE_TYPE_LABEL :> <<"d">>))) } }

InitScale ==
    /\ input \in ScaleInputs
    /\ graph = None
    /\ previous = None
    /\ store = EmptyMap
    /\ clock = 0
    /\ last = None
    /\ in_flight = {}

\* The workload of the input is synthesized and stored.
DeployWorkload ==
    /\ graph = None
    /\ \E rt \in RuntimeChoices(input.service) :
          LET pass == SynthesisPass(input, rt)
          IN  /\ graph' = Some(pass)
              /\ store' = Apply(store, to_rfc1123_namespace_id(input.app_name),
                                pass.deployment,
                                [app_name |-> input.app_name,
                                 service |-> Some(input.service)])
    /\ UNCHANGED << input, previous, clock, last, in_flight >>

\* The deployed service is scaled: the scale payload for a replica count is
\* synthesized and applied.
Scale ==
    /\ graph # None
    /\ \E replicas \in 0..MaxReplicas :
          LET payload == deployment_replicas_payload(input.app_name, input.service,
                                                     replicas)
          IN  /\ last' = Some(payload)
              /\ store' = ApplyScale(store, payload)
    /\ UNCHANGED << input, graph, previous, clock, in_flight >>

NextScale == DeployWorkload \/ Scale

SpecScale == InitScale /\ [][NextScale]_vars

\* ------------------------------------------------------------------ C19
\* C19: a freshly synthesized workload has replica count 1.  The latest
\* scale payload has the name, namespace, labels and selector of the
\* workload and, beside the replica count, no other field: no annotations,
\* no generated name, an empty pod template.  After it was applied, the
\* stored workload has the replica count of the payload and is otherwise the
\* workload as it was synthesized: pod template, annotations, volumes and
\* image are unchanged.
C19_ScaleChangesReplicasOnly ==
    IsSome(graph) =>
        LET deployment == Unwrap(graph).deployment
            key == StoreKey(Unwrap(deployment.metadata.namespace), deployment)
        IN  /\ deployment.spec.replicas = Some(1)
            /\ key \in DOMAIN store
            /\ IF IsSome(last)
               THEN LET payload == Unwrap(last)
                    IN  /\ payload.metadata.name = deployment.metadata.name
                        /\ payload.metadata.namespace = deployment.metadata.namespace
                        /\ payload.metadata.labels = deployment.metadata.labels
                        /\ payload.spec.selector = deployment.spec.selector
                        /\ payload.metadata.annotations = None
                        /\ payload.metadata.generate_name = None
                        /\ payload.spec.template = PodTemplateSpecDefault
                        /\ store[key].object =
                              [deployment EXCEPT !.spec.replicas = payload.spec.replicas]
               ELSE store[key].object = deployment

\* C19 witness: a workload with annotations, volumes and an image, for an
\* application identifier that normalization changes, was scaled to a
\* replica count other than 1.
C19_Witness ==
    /\ IsSome(graph)
    /\ IsSome(last)
    /\ HasUpper(AppNameToString(input.app_name))
    /\ Unwrap(last).spec.replicas = Some(2)
    /\ IsSome(PodSpecOf(Unwrap(graph).deployment).volumes)
    /\ PodTemplateMeta(Unwrap(graph).deployment).annotations # Some(EmptyMap)
    /\ \E k \in DOMAIN store : store[k].object.spec.replicas = Some(2)

\* ------------------------------------------------------------------ C20
\* C20: for the declared files of a service one secret is emitted, named
\* {normalized-app}-{service}-secret in the normalized namespace, with one
\* entry per file: the entry's key is the file name with every dot replaced
\* by a dash, its value the content of that file, carried base64-encoded.
C20_FileSecretEntryPerFile ==
    (IsSome(graph) /\ IsSome(input.service.files)) =>
        LET files == Unwrap(input.service.files)
            normalized == to_lowercase(AppNameToString(input.app_name))
        IN  /\ IsSome(Unwrap(graph).secret)
            /\ LET secret == Unwrap(Unwrap(graph).secret)
                   data == UnwrapOr(secret.data, EmptyMap)
               IN  /\ secret.metadata.name =
                         Some(normalized \o TxtDash \o input.service.service_name
                              \o TxtSecret)
                   /\ secret.metadata.namespace = Some(normalized)
                   /\ Cardinality(DOMAIN data) = Cardinality(DOMAIN files)
                   /\ \A p \in DOMAIN files :
                         IsSome(PathFileName(p)) =>
                             LET key == replace_dot_dash(Unwrap(PathFileName(p)))
                             IN  /\ key \in DOMAIN data
                                 /\ data[key] = ByteStringFromValue(Base64Encode(files[p]))

\* ------------------------------------------------------------------ C21
\* C21: the routing route of a service is one object named
\* {normalized-app}-{service}-ingress-route in the normalized namespace; it
\* has one rule per route entry of the descriptor, in the descriptor's
\* order; each rule carries the match predicate of its entry and targets one
\* service, the descriptor's service name on the descriptor's port.
C21_OneRulePerRouteEntry ==
    IsSome(graph) =>
        LET route == Unwrap(graph).ingress_route
            entries == input.service.ingress_route.routes
            normalized == to_lowercase(AppNameToString(input.app_name))
            rules == UnwrapOr(route.spec.routes, <<>>)
        IN  /\ route.metadata.name =
                  Some(normalized \o TxtDash \o input.service.service_name
                       \o TxtIngressRoute)
            /\ route.metadata.namespace = Some(normalized)
            /\ IsSome(route.spec.routes)
            /\ Len(rules) = Len(entries)
            /\ \A i \in DOMAIN rules :
                  /\ rules[i].match = entries[i].rule
                  /\ Len(rules[i].services) = 1
                  /\ rules[i].services[1].name = input.service.service_name
                  /\ rules[i].services[1].port = Some(input.service.port)

\* C21 witness: the route of a descriptor with two route entries of
\* different match predicates was synthesized for an identifier that
\* normalization changes.
C21_Witness ==
    /\ IsSome(graph)
    /\ HasUpper(AppNameToString(input.app_name))
    /\ Len(input.service.ingress_route.routes) = 2
    /\ input.service.ingress_route.routes[1].rule
          # input.service.ingress_route.routes[2].rule
    /\ Len(UnwrapOr(Unwrap(graph).ingress_route.spec.routes, <<>>)) = 2

\* ------------------------------------------------------------------ C22
\* C22: the middleware objects of a service are one per distinct inline
\* middleware of its routes: an inline middleware that two route entries
\* list, or one entry lists twice, yields one object under its resolved
\* name.
C22_OneObjectPerDistinctMiddleware ==
    IsSome(graph) =>
        LET objects == Unwrap(graph).middlewares
            routes == input.service.ingress_route.routes
            inline == UNION { { routes[i].middlewares[j] :
                                  j \in {n \in DOMAIN routes[i].middlewares :
                                            routes[i].middlewares[n].kind = "Spec"} } :
                              i \in DOMAIN routes }
        IN  /\ Len(objects) = Cardinality(inline)
            /\ \A m \in inline :
                  \E i \in DOMAIN objects :
                      objects[i].metadata.name = Some(ResolvedMiddlewareName(m))

\* ------------------------------------------------------------------ C23
\* The last path segment of a declared volume; none for the empty path and
\* for a path that ends in a slash.
LastSegment(path) ==
    IF Len(path) = 0 \/ path[Len(path)] = "/" THEN None
    ELSE LET start == CHOOSE i \in 1..Len(path) :
                         /\ \A j \in i..Len(path) : path[j] # "/"
                         /\ (i = 1 \/ path[i - 1] = "/")
         IN  Some(SubSeq(path, start, Len(path)))

\* C23: the storage claim of a declared volume has no name but the
\* generated-name prefix {normalized-app}-{service}-pvc-, the labels
\* application-name (the identifier as given), service-name and
\* storage-type, the access mode ReadWriteOnce, the given storage class and
\* the requested size in bytes.  The storage-type label is the last path
\* segment of the declared volume, and default when it has none.
C23_StorageClaimPayload ==
    IsSome(graph) =>
        LET claims == Unwrap(graph).claims
            normalized == to_lowercase(AppNameToString(input.app_name))
        IN  /\ Len(claims) = Len(input.service.declared_volumes)
            /\ \A i \in DOMAIN claims :
                  /\ claims[i].metadata.name = None
                  /\ claims[i].metadata.generate_name =
                        Some(normalized \o TxtDash \o input.service.service_name
                             \o TxtPvc)
                  /\ claims[i].metadata.labels =
                        Some((APP_NAME_LABEL :> AppNameToString(input.app_name))
                             @@ (SERVICE_NAME_LABEL :> input.service.service_name)
                             @@ (STORAGE_TYPE_LABEL :>
                                    UnwrapOr(LastSegment(input.service.declared_volumes[i]),
                                             TxtDefault)))
                  /\ claims[i].spec.access_modes = Some(<< "ReadWriteOnce" >>)
                  /\ claims[i].spec.storage_class_name = Some(<<"s","c">>)
                  /\ claims[i].spec.resources =
                        Some([requests |-> Some("storage" :> <<"1">>)])

\* ------------------------------------------------------------------ C24
\* C24: for a service with declared files, every file-backed volume of the
\* workload references, as its secretName, the metadata name of the secret
\* that secrets_payload emits for the same application and service.
C24_VolumeReferencesFileSecret ==
    (IsSome(graph) /\ IsSome(input.service.files)) =>
        /\ IsSome(Unwrap(graph).secret)
        /\ LET volumes == SecretVolumesOf(Unwrap(graph).deployment)
           IN  \A i \in DOMAIN volumes :
                  Unwrap(volumes[i].secret).secret_name
                      = Unwrap(Unwrap(graph).secret).metadata.name

\* ------------------------------------------------------------------ C25
\* C25: within one synthesized pod spec the names of the volumes are
\* non-empty and pairwise distinct, and so are the names of the volume
\* mounts of the container.
C25_VolumeNamesDistinct ==
    IsSome(graph) =>
        LET pod == PodSpecOf(Unwrap(graph).deployment)
            volumes == UnwrapOr(pod.volumes, <<>>)
            mounts == UnwrapOr(pod.containers[1].volume_mounts, <<>>)
        IN  /\ \A i \in DOMAIN volumes : Len(volumes[i].name) > 0
            /\ \A i, j \in DOMAIN volumes :
                  volumes[i].name = volumes[j].name => i = j
            /\ \A i \in DOMAIN mounts : Len(mounts[i].name) > 0
            /\ \A i, j \in DOMAIN mounts :
                  mounts[i].name = mounts[j].name => i = j

\* ------------------------------------------------------------------ C26
\* C26: the keys of the file secret are injective over the declared files
\* of a service: the secret has as many entries as there are declared
\* files, and for every declared file the volume of its parent directory
\* has an item that projects the file's name from a key under which the
\* secret holds the content of that file.
C26_SecretKeysInjective ==
    (IsSome(graph) /\ IsSome(input.service.files)) =>
        LET files == Unwrap(input.service.files)
            data == UnwrapOr(Unwrap(Unwrap(graph).secret).data, EmptyMap)
            volumes == SecretVolumesOf(Unwrap(graph).deployment)
        IN  /\ Cardinality(DOMAIN data) = Cardinality(DOMAIN files)
            /\ \A p \in {r \in DOMAIN files : IsSome(PathParent(r))} :
                  \E i \in DOMAIN volumes :
                      /\ volumes[i].name = secret_name_from_path(Unwrap(PathParent(p)))
                      /\ \E item \in Range(Unwrap(Unwrap(volumes[i].secret).items)) :
                            /\ item.path = Unwrap(PathFileName(p))
                            /\ item.key \in DOMAIN data
                            /\ data[item.key] = files[p]

\* ------------------------------------------------------------------ C27
\* The namespace a stored object belongs to; a namespace object belongs to
\* itself.
NamespaceOf(k) == IF k[1] = "Namespace" THEN k[3] ELSE k[2]

\* C27: the objects of two distinct application identifiers never share a
\* namespace, and a deploy of one application leaves every object that
\* another application deployed as it was: it neither overwrites nor
\* removes it.
C27_TenantIsolation ==
    /\ \A k1, k2 \in DOMAIN store :
          NamespaceOf(k1) = NamespaceOf(k2)
              => store[k1].by.app_name = store[k2].by.app_name
    /\ IsSome(last) =>
          \A k \in DOMAIN Unwrap(last).before :
              Unwrap(last).before[k].by.app_name # Unwrap(last).input.app_name
                  => /\ k \in DOMAIN store
                     /\ store[k] = Unwrap(last).before[k]

\* ------------------------------------------------------------------ round trip of routes
\* The descriptors whose route is emitted and parsed back: six application
\* identifiers, two services, the default route and the route lists.
RoundTripInputs ==
    { [app_name |-> a,
       service |-> DeployableService(sn, "Instance", RedeployNever, None, None,
                                     routing, <<>>),
       container_config |-> [memory_limit |-> None],
       use_image_pull_secret |-> FALSE,
       persistent_volume_map |-> None,
       config |-> [runtime |-> "Docker"]] :
        a \in SynthAppNames \cup NamingAppNames, sn \in ServiceNames,
        routing \in { IngressRouteWithDefaults(<<"M","Y">>, <<"d","b">>) }
                    \cup { [entrypoints |-> <<>>, routes |-> routes, tls |-> None] :
                             routes \in RouteLists } }

InitRoundTrip ==
    /\ input \in RoundTripInputs
    /\ graph = None
    /\ previous = None
    /\ store = EmptyMap
    /\ clock = 0
    /\ last = None
    /\ in_flight = {}

\* ingress_route_payload emits the routing route of the descriptor.
EmitRoute ==
    /\ graph = None
    /\ graph' = Some(ingress_route_payload(input.app_name, input.service))
    /\ UNCHANGED << input, previous, store, clock, last, in_flight >>

\* TraefikIngressRoute::try_from parses the emitted routing route.
ParseRoute ==
    /\ graph # None
    /\ last = None
    /\ last' = Some(try_from(Unwrap(graph)))
    /\ UNCHANGED << input, graph, previous, store, clock, in_flight >>

NextRoundTrip == EmitRoute \/ ParseRoute

SpecRoundTrip == InitRoundTrip /\ [][NextRoundTrip]_vars

\* ------------------------------------------------------------------ C28
\* C28: parsing the emitted routing route of a descriptor back succeeds and
\* yields a route model with every route entry of the descriptor, each with
\* its match rule, its middlewares as references to the resolved names, and
\* the TLS resolver of the descriptor.
C28_RouteRoundTrip ==
    IsSome(last) =>
        /\ Unwrap(last).ok
        /\ LET model == Unwrap(Unwrap(last).value)
               entries == input.service.ingress_route.routes
           IN  /\ Len(model.routes) = Len(entries)
               /\ \A i \in DOMAIN model.routes :
                     /\ i \in DOMAIN entries
                     /\ model.routes[i].rule = entries[i].rule
                     /\ model.routes[i].middlewares =
                           [j \in DOMAIN entries[i].middlewares |->
                               TraefikMiddlewareRef(
                                   ResolvedMiddlewareName(entries[i].middlewares[j]))]
               /\ model.tls = input.service.ingress_route.tls

\* ------------------------------------------------------------------ C29
\* The stored storage claims.
StoredClaims == {k \in DOMAIN store : k[1] = "PersistentVolumeClaim"}

\* C29: the labels that persistent_volume_claim_payload puts on the claims
\* of two distinct declared volumes of a service differ, so after any number
\* of deploys of the descriptor the lookup by the labels of a declared
\* volume finds exactly one stored claim, a different one for every
\* declared volume, and the store holds one claim per declared volume.
C29_ClaimsIdentifiedByLabel ==
    clock > 0 =>
        LET declared == input.service.declared_volumes
            payload(i) == persistent_volume_claim_payload(
                              input.app_name, input.service, 1, <<"s","c">>, declared[i])
            found(i) == MatchingClaims(store, to_rfc1123_namespace_id(input.app_name),
                                       payload(i))
        IN  /\ \A i, j \in DOMAIN declared :
                  i # j => /\ payload(i).metadata.labels # payload(j).metadata.labels
                           /\ found(i) \cap found(j) = {}
            /\ \A i \in DOMAIN declared : Cardinality(found(i)) = 1
            /\ Cardinality(StoredClaims) = Len(declared)
====
